---- MODULE Spec2Model ----
(***************************************************************************)
(* Model of songshare_analysis.essentia.rhythm.detect_rhythm_timing_from_  *)
(* beats: the rhythm timing classifier.                                    *)
(*                                                                         *)
(* Floats are modelled as exact rationals <<n, d>> in lowest terms with    *)
(* d > 0, extended with the IEEE-754 specials the code can produce:        *)
(* <<1, 0>> is +inf, <<-1, 0>> is -inf and <<0, 0>> is nan.  Rounding of   *)
(* finite results is not modelled: every finite operation is exact.        *)
(* Beat timestamps are whole multiples of Tick seconds.                    *)
(*                                                                         *)
(* The calls explored have subdivisions >= 1 and min_beats >= 2, so that   *)
(* a call that passes the min_beats guard has at least one inter-beat      *)
(* interval.                                                               *)
(***************************************************************************)
EXTENDS Integers, Sequences, FiniteSets, TLC

VARIABLES
    beats,          \* the argument `beats`, in ticks
    subdivisions,   \* the argument `subdivisions`
    quant_tol_sec,  \* the argument `quant_tol_sec`, a float
    min_beats,      \* the argument `min_beats`
    pc,             \* "call" before the function runs, "return" after
    \* the function's local variables, Unbound until assigned
    ibis, mean_ibi, mad, robust_std, cv, phases, sec_dist, quant_score,
    cv_score, combined, confidence,
    result,         \* the returned dict, None before the return
    \* several callers of the function
    frames,         \* thread -> the frame of its current or last call
    ncalls,         \* the calls made so far
    \* an audio file and the tag writer
    kind,           \* "mp3" for a .mp3 suffix, "generic" for any other
    tags,           \* the tags of the file, as read_id3 returns them
    save,           \* how saving to this file behaves: "ok", "fails", "lost"
    backup,         \* the tags in the .tags.bak.json sidecar, None without
    proposed,       \* the dict handed to apply_metadata
    step,           \* the position in the call or in the run
    \* one run of the id3 command on the file
    pipeline,       \* "cli" for the cli package, "legacy" for the old modules
    opts,           \* the parsed command line
    mb_info,        \* what musicbrainz_lookup returns for the file
    existing_tags,  \* the tags handed to _maybe_propose_and_apply, or None
    delta,          \* the local `delta`
    embed_would_write, \* the local `embed_would_write`
    cover_bytes,    \* the local `cover_bytes`
    file_result,    \* the dict returned for the file
    counters,       \* the totals of the batch summary
    log,            \* what the run has printed, asked and called, in order
    history,        \* the result and the log of every earlier run
    \* one selection among the candidates of a MusicBrainz search
    qtitle,         \* the queried title
    qartist,        \* the queried artist
    cands,          \* the candidates, in the order the search returned them
    selected,       \* <<>> before the return, then the tuple of what is returned
    full,           \* the tuple of the record the lookup extracted from
    mb_out,         \* <<>> before musicbrainz_lookup returns, then <<its result>>
    \* the tags derived from one TimingResult
    timing,         \* the TimingResult, None before any is given
    rhythm_out,     \* <<>> before _write_rhythm_tags returns, then <<out>>
    id3,            \* the TXXX frames of the file write_rhythm_id3_tags writes
    saved,          \* whether write_rhythm_id3_tags has saved the file
    \* the deciles of one label-to-probability map
    probs,          \* the map, an empty dict before any is given
    rows,           \* <<>> before compute_panns_deciles returns, then <<rows>>
    panns_out,      \* <<>> before _emit_panns_labels returns, then <<out>>
    \* one call of _download_cover_art
    retries,        \* the argument `retries`
    attempt,        \* the loop variable `attempt`, 0 before the loop
    dl_pc,          \* "none", "loop", "sleep", "return" or "raise"
    dl_events,      \* the urlopen and sleep calls made, in order
    dl_result,      \* the bytes returned or the exception raised
    \* the analysis of the file of a run of the id3 command
    analysis,       \* what read_sidecar or extract_basic gives, None without
    answer          \* the last answer typed at the confirmation prompt

args == <<beats, subdivisions, quant_tol_sec, min_beats>>

locals == <<ibis, mean_ibi, mad, robust_std, cv, phases, sec_dist,
            quant_score, cv_score, combined, confidence>>

callers == <<frames, ncalls>>

\* what a single call of the classifier leaves alone
file == <<kind, tags, save, backup>>

writer == <<file, proposed, step>>

\* the locals and the outcome of a run of the command
command == <<pipeline, opts, mb_info, existing_tags, delta, embed_would_write,
             cover_bytes, file_result, counters, log, history>>

search == <<qtitle, qartist, cands, selected, full, mb_out>>

tagging == <<timing, rhythm_out, id3, saved>>

panns == <<probs, rows, panns_out>>

download == <<retries, attempt, dl_pc, dl_events, dl_result>>

helpers == <<tagging, panns, download, analysis, answer>>

outside == <<callers, writer, command, search, helpers>>

vars == <<args, pc, locals, result, outside>>

\* Python's None, and the marker of a local variable not yet assigned.  Both
\* are tuples, like every float and array of the model.
None == <<>>
Unbound == <<None>>

-----------------------------------------------------------------------------
(* The defaults of the keyword arguments (rhythm.py:28-30). *)

DefaultSubdivisions == 16
DefaultQuantTolSec == <<1, 100>>
DefaultMinBeats == 8

(* The inputs explored.  A beat sequence is empty or is a start tick
   followed by up to MaxBeats - 1 intervals; an interval of 0 repeats a
   timestamp and a negative one breaks the order.  With a tick of 5 ms the
   intervals are 0.49 s, 0.5 s and 0.51 s, and a start of 3 ticks puts
   every beat of a 0.5 s grid 15 ms off the sub-beat grid. *)

MaxBeats == 5
StartSet == {0, 3}
IbiSet == {-100, 0, 98, 100, 102}
SubdivisionsSet == {4, DefaultSubdivisions}
MinBeatsSet == {2, DefaultMinBeats}

-----------------------------------------------------------------------------
(* Float arithmetic. *)

IAbs(i) == IF i < 0 THEN -i ELSE i

Sgn(i) == IF i > 0 THEN 1 ELSE IF i < 0 THEN -1 ELSE 0

RECURSIVE Gcd(_, _)
Gcd(a, b) == IF b = 0 THEN a ELSE Gcd(b, a % b)

NaN == <<0, 0>>
PosInf == <<1, 0>>
NegInf == <<-1, 0>>

\* n / d as a float; a zero divisor gives the IEEE result (inf or nan).
Rat(n, d) ==
    IF d = 0 THEN <<Sgn(n), 0>>
    ELSE LET g == Gcd(IAbs(n), IAbs(d))
         IN  <<Sgn(d) * (n \div g), IAbs(d) \div g>>

Flt(i) == <<i, 1>>

IsNaN(x) == x = NaN
IsFinite(x) == x[2] # 0

RNeg(x) == <<-x[1], x[2]>>

RAbs(x) == <<IAbs(x[1]), x[2]>>

RAdd(x, y) ==
    IF IsNaN(x) \/ IsNaN(y) THEN NaN
    ELSE IF ~IsFinite(x) /\ ~IsFinite(y) THEN (IF x = y THEN x ELSE NaN)
    ELSE IF ~IsFinite(x) THEN x
    ELSE IF ~IsFinite(y) THEN y
    ELSE LET g == Gcd(x[2], y[2])
         IN  Rat(x[1] * (y[2] \div g) + y[1] * (x[2] \div g),
                 (x[2] \div g) * y[2])

RSub(x, y) == RAdd(x, RNeg(y))

RMul(x, y) ==
    IF IsNaN(x) \/ IsNaN(y) THEN NaN
    ELSE IF ~IsFinite(x) \/ ~IsFinite(y) THEN <<Sgn(x[1]) * Sgn(y[1]), 0>>
    ELSE LET g1 == Gcd(IAbs(x[1]), y[2])
             g2 == Gcd(IAbs(y[1]), x[2])
         IN  Rat((x[1] \div g1) * (y[1] \div g2),
                 (x[2] \div g2) * (y[2] \div g1))

\* numpy division: x / 0 is inf or nan, never an exception.
RDiv(x, y) ==
    IF IsNaN(x) \/ IsNaN(y) THEN NaN
    ELSE IF ~IsFinite(x) /\ ~IsFinite(y) THEN NaN
    ELSE IF ~IsFinite(x) THEN <<x[1] * (IF y[1] < 0 THEN -1 ELSE 1), 0>>
    ELSE IF ~IsFinite(y) THEN Flt(0)
    ELSE IF y[1] = 0 THEN <<Sgn(x[1]), 0>>
    ELSE RMul(x, <<Sgn(y[1]) * y[2], IAbs(y[1])>>)

\* x < y; any comparison with nan is false.
RLt(x, y) ==
    IF IsNaN(x) \/ IsNaN(y) THEN FALSE
    ELSE IF ~IsFinite(x) \/ ~IsFinite(y)
         THEN (IF IsFinite(x) THEN y = PosInf
               ELSE IF IsFinite(y) THEN x = NegInf
               ELSE x = NegInf /\ y = PosInf)
    ELSE x[1] * y[2] < y[1] * x[2]

RLe(x, y) == ~IsNaN(x) /\ ~IsNaN(y) /\ (x = y \/ RLt(x, y))

RGe(x, y) == RLe(y, x)

RGt(x, y) == RLt(y, x)

\* Python's builtin max(a, b): b when b > a, else a.
PyMax(a, b) == IF RGt(b, a) THEN b ELSE a

\* np.minimum / np.maximum: nan propagates.
NpMinimum(a, b) ==
    IF IsNaN(a) \/ IsNaN(b) THEN NaN ELSE IF RLt(b, a) THEN b ELSE a

NpMaximum(a, b) ==
    IF IsNaN(a) \/ IsNaN(b) THEN NaN ELSE IF RGt(b, a) THEN b ELSE a

\* np.clip(x, lo, hi)
NpClip(x, lo, hi) == NpMinimum(NpMaximum(x, lo), hi)

\* floor of a finite float
Floor(x) == x[1] \div x[2]

\* np.mod(x, p): the remainder has the sign of the divisor; nan for p = 0.
NpMod(x, p) ==
    IF ~IsFinite(x) \/ ~IsFinite(p) \/ p[1] = 0 THEN NaN
    ELSE RSub(x, RMul(p, Flt(Floor(RDiv(x, p)))))

RECURSIVE SumSeq(_)
SumSeq(s) == IF s = <<>> THEN Flt(0) ELSE RAdd(Head(s), SumSeq(Tail(s)))

\* np.mean: nan for an empty array.
NpMean(s) == RDiv(SumSeq(s), Flt(Len(s)))

\* np.median: the middle element of the sorted array, or the mean of the
\* two middle elements; nan for an empty array.
NpMedian(s) ==
    IF s = <<>> THEN NaN
    ELSE LET srt == SortSeq(s, RLt)
             n == Len(s)
         IN  IF n % 2 = 1 THEN srt[(n + 1) \div 2]
             ELSE RDiv(RAdd(srt[n \div 2], srt[n \div 2 + 1]), Flt(2))

\* np.diff
NpDiff(s) == [i \in 1..(Len(s) - 1) |-> RSub(s[i + 1], s[i])]

-----------------------------------------------------------------------------
(* detect_rhythm_timing_from_beats *)

\* One tick of the timestamps, in seconds (5 ms).
Tick == <<1, 200>>

\* beats_arr = np.asarray(list(beats), dtype=float)
BeatsArr(bs) == [i \in 1..Len(bs) |-> RMul(Flt(bs[i]), Tick)]

\* np.abs(ibis - med)
AbsDev(s, med) == [i \in 1..Len(s) |-> RAbs(RSub(s[i], med))]

\* Faulty variant: the mean of the absolute deviations in place of their
\* median.
Mad_MeanDeviation(s) == NpMean(AbsDev(s, NpMedian(s)))

\* mad = float(np.median(np.abs(ibis - np.median(ibis))))
Mad(s) == NpMedian(AbsDev(s, NpMedian(s)))

\* robust_std = 1.4826 * mad
RobustStd(m) == RMul(<<7413, 5000>>, m)

\* Faulty variant: the test mean_ibi >= 0 in place of mean_ibi > 0.
Cv_NonNegative(rs, mean) ==
    IF RGe(mean, Flt(0)) THEN RDiv(rs, mean) ELSE PosInf

\* cv = robust_std / mean_ibi if mean_ibi > 0 else float("inf")
Cv(rs, mean) == IF RGt(mean, Flt(0)) THEN RDiv(rs, mean) ELSE PosInf

\* phases = np.mod(beats_arr, beat_period) / beat_period
Phases(beats_arr, beat_period) ==
    [i \in 1..Len(beats_arr) |->
        RDiv(NpMod(beats_arr[i], beat_period), beat_period)]

\* Faulty variant: the grid 1/n .. n/n in place of 0/n .. (n-1)/n.
Grids_FromOne(subdiv) ==
    [k \in 1..(IF subdiv > 0 THEN subdiv ELSE 0) |->
        RDiv(Flt(k), Flt(subdiv))]

\* grids = np.arange(subdivisions) / float(subdivisions)
Grids(subdiv) ==
    [k \in 1..(IF subdiv > 0 THEN subdiv ELSE 0) |->
        RDiv(Flt(k - 1), Flt(subdiv))]

\* np.minimum.reduce over a non-empty list of floats
RECURSIVE MinimumReduce(_)
MinimumReduce(s) ==
    IF Len(s) = 1 THEN s[1] ELSE NpMinimum(s[1], MinimumReduce(Tail(s)))

\* 1 - d folded onto d: np.minimum(frac_dist, 1 - frac_dist)
Fold(d) == NpMinimum(d, RSub(Flt(1), d))

\* frac_dist = np.minimum.reduce([np.abs(phases - g) for g in grids])
\* frac_dist = np.minimum(frac_dist, 1 - frac_dist)
FracDist(phase, grids) ==
    Fold(MinimumReduce([k \in 1..Len(grids) |-> RAbs(RSub(phase, grids[k]))]))

\* sec_dist = frac_dist * beat_period
SecDist(ph, grids, beat_period) ==
    [i \in 1..Len(ph) |-> RMul(FracDist(ph[i], grids), beat_period)]

\* Faulty variant: np.sum in place of np.mean.
QuantScore_Sum(sd, tol) ==
    Flt(Cardinality({i \in 1..Len(sd) : RLe(sd[i], tol)}))

\* quant_score = float(np.mean(sec_dist <= quant_tol_sec))
QuantScore(sd, tol) ==
    Rat(Cardinality({i \in 1..Len(sd) : RLe(sd[i], tol)}), Len(sd))

\* Faulty variant: the max(0.0, ...) floor left out.
CvScore_NoFloor(c) == RDiv(RSub(<<1, 50>>, c), <<1, 50>>)

\* Faulty variant: a jitter ceiling of 0.05 in place of 0.02.
CvScore_WideCeiling(c) == PyMax(Flt(0), RDiv(RSub(<<1, 20>>, c), <<1, 20>>))

\* cv_score = max(0.0, (0.02 - cv) / 0.02)
CvScore(c) == PyMax(Flt(0), RDiv(RSub(<<1, 50>>, c), <<1, 50>>))

\* combined = 0.6 * cv_score + 0.4 * quant_score
Combined(cs, qs) == RAdd(RMul(<<3, 5>>, cs), RMul(<<2, 5>>, qs))

\* confidence = float(np.clip(combined, 0.0, 1.0))
Confidence(comb) == NpClip(comb, Flt(0), Flt(1))

\* Faulty variant: the clicktrack threshold set to 0.5.
Label_LowThreshold(conf) ==
    IF RGe(conf, <<1, 2>>) THEN "clicktrack"
    ELSE IF RLe(conf, <<2, 5>>) THEN "human"
    ELSE "uncertain"

\* Faulty variant: "clicktrack" only strictly above 0.6.
Label_StrictAbove(conf) ==
    IF RGt(conf, <<3, 5>>) THEN "clicktrack"
    ELSE IF RLe(conf, <<2, 5>>) THEN "human"
    ELSE "uncertain"

\* Faulty variant: "human" only strictly below 0.4.
Label_StrictBelow(conf) ==
    IF RGe(conf, <<3, 5>>) THEN "clicktrack"
    ELSE IF RLt(conf, <<2, 5>>) THEN "human"
    ELSE "uncertain"

\* the label decision (rhythm.py:72-77)
Label(conf) ==
    IF RGe(conf, <<3, 5>>) THEN "clicktrack"
    ELSE IF RLe(conf, <<2, 5>>) THEN "human"
    ELSE "uncertain"

\* bpm = 60.0 / mean_ibi if mean_ibi > 0 else None
Bpm(mean) == IF RGt(mean, Flt(0)) THEN RDiv(Flt(60), mean) ELSE None

Pow10(k) == IF k = 3 THEN 1000 ELSE 100000

\* x rounded half-even to the integer nearest y = x * 10^k, with floor f
RoundHalfEven(y, f) ==
    IF RLt(RSub(y, Flt(f)), <<1, 2>>) THEN f
    ELSE IF RGt(RSub(y, Flt(f)), <<1, 2>>) THEN f + 1
    ELSE IF f % 2 = 0 THEN f ELSE f + 1

Scaled(x, k) == RMul(x, Flt(Pow10(k)))

\* f"{x:.kf}": <<m, k>> stands for the decimal string of m / 10^k, x rounded
\* to k decimals; a one-element tuple for a non-finite x.
FmtFixed(x, k) ==
    IF IsNaN(x) THEN <<"nan">>
    ELSE IF x = PosInf THEN <<"inf">>
    ELSE IF x = NegInf THEN <<"-inf">>
    ELSE <<RoundHalfEven(Scaled(x, k), Floor(Scaled(x, k))), k>>

\* reason = f"cv={cv:.5f},quant={quant_score:.3f}"
Reason(c, qs) == <<"cv=", FmtFixed(c, 5), ",quant=", FmtFixed(qs, 3)>>

\* Faulty variant: the guard lets a sequence one beat short through.
Guard_OffByOne(n, mb) == n < mb - 1

\* if len(beats_arr) < min_beats
Guard(n, mb) == n < mb

\* The early return of the min_beats guard (rhythm.py:39-48).
TooFewBeats ==
    /\ pc = "call"
    /\ Guard(Len(beats), min_beats)
    /\ result' = [label |-> "uncertain", confidence |-> Flt(0),
                  reason |-> <<"too_few_beats">>, bpm |-> None,
                  beat_cv |-> None, quant_score |-> None,
                  n_beats |-> Len(beats)]
    /\ pc' = "return"
    /\ UNCHANGED <<args, locals, outside>>

\* The classification proper (rhythm.py:50-90).
Classify ==
    /\ pc = "call"
    /\ ~Guard(Len(beats), min_beats)
    /\ Grids(subdivisions) # <<>>
    /\ ibis' = NpDiff(BeatsArr(beats))
    /\ mean_ibi' = NpMean(ibis')
    /\ mad' = Mad(ibis')
    /\ robust_std' = RobustStd(mad')
    /\ cv' = Cv(robust_std', mean_ibi')
    /\ phases' = Phases(BeatsArr(beats), mean_ibi')
    /\ sec_dist' = SecDist(phases', Grids(subdivisions), mean_ibi')
    /\ quant_score' = QuantScore(sec_dist', quant_tol_sec)
    /\ cv_score' = CvScore(cv')
    /\ combined' = Combined(cv_score', quant_score')
    /\ confidence' = Confidence(combined')
    /\ result' = [label |-> Label(confidence'),
                  confidence |-> confidence',
                  reason |-> Reason(cv', quant_score'),
                  bpm |-> Bpm(mean_ibi'),
                  beat_cv |-> cv',
                  quant_score |-> quant_score',
                  n_beats |-> Len(beats)]
    /\ pc' = "return"
    /\ UNCHANGED <<args, outside>>

\* The call that ends in an exception: with an empty grid the list handed to
\* np.minimum.reduce is empty and the reduction raises ValueError
\* (rhythm.py:61), after the statistics of lines 50-58 were computed.
ClassifyRaises ==
    /\ pc = "call"
    /\ ~Guard(Len(beats), min_beats)
    /\ Grids(subdivisions) = <<>>
    /\ ibis' = NpDiff(BeatsArr(beats))
    /\ mean_ibi' = NpMean(ibis')
    /\ mad' = Mad(ibis')
    /\ robust_std' = RobustStd(mad')
    /\ cv' = Cv(robust_std', mean_ibi')
    /\ phases' = Phases(BeatsArr(beats), mean_ibi')
    /\ pc' = "raise"
    /\ UNCHANGED <<args, sec_dist, quant_score, cv_score, combined,
                   confidence, result, outside>>

\* No thread is calling the function.
NoCallers == frames = <<>> /\ ncalls = 0

\* No file is being tagged.
NoFile ==
    /\ kind = "none" /\ tags = <<>> /\ save = "ok" /\ backup = None
    /\ proposed = <<>> /\ step = "none"

\* The command is not run.
NoCommand ==
    /\ pipeline = "none" /\ opts = <<>> /\ mb_info = <<>>
    /\ existing_tags = <<>> /\ delta = <<>> /\ embed_would_write = FALSE
    /\ cover_bytes = <<>> /\ file_result = <<>> /\ counters = <<>>
    /\ log = <<>> /\ history = <<>>

\* No search result is being selected from.
NoSearch ==
    /\ qtitle = <<>> /\ qartist = <<>> /\ cands = <<>> /\ selected = <<>>
    /\ full = <<>> /\ mb_out = <<>>

\* No TimingResult is being turned into tags.
NoTagging == timing = <<>> /\ rhythm_out = <<>> /\ id3 = <<>> /\ saved = FALSE

\* No deciles are being computed.
NoPanns == probs = <<>> /\ rows = <<>> /\ panns_out = <<>>

\* No cover is being downloaded.
NoDownload ==
    /\ retries = 0 /\ attempt = 0 /\ dl_pc = "none" /\ dl_events = <<>>
    /\ dl_result = <<>>

\* No analysis of the file exists.
NoAnalysis == analysis = <<>> /\ answer = <<>>

NoHelpers == NoTagging /\ NoPanns /\ NoDownload /\ NoAnalysis

\* The timestamps of a start tick t0 followed by the intervals gaps.
RECURSIVE BeatsFrom(_, _)
BeatsFrom(t0, gaps) ==
    IF gaps = <<>> THEN <<t0>>
    ELSE LET rest == BeatsFrom(t0, SubSeq(gaps, 1, Len(gaps) - 1))
         IN  Append(rest, rest[Len(rest)] + gaps[Len(gaps)])

BeatSequences ==
    {<<>>} \cup
    UNION {{BeatsFrom(t0, gaps) : t0 \in StartSet, gaps \in [1..m -> IbiSet]}
           : m \in 0..(MaxBeats - 1)}

Init ==
    /\ beats \in BeatSequences
    /\ subdivisions \in SubdivisionsSet
    /\ quant_tol_sec = DefaultQuantTolSec
    /\ min_beats \in MinBeatsSet
    /\ pc = "call"
    /\ ibis = Unbound /\ mean_ibi = Unbound /\ mad = Unbound
    /\ robust_std = Unbound /\ cv = Unbound /\ phases = Unbound
    /\ sec_dist = Unbound /\ quant_score = Unbound /\ cv_score = Unbound
    /\ combined = Unbound /\ confidence = Unbound
    /\ result = None
    /\ NoCallers
    /\ NoFile
    /\ NoCommand
    /\ NoSearch
    /\ NoHelpers

Next == TooFewBeats \/ Classify

Spec == Init /\ [][Next]_vars

(* The calls with arbitrary arguments: short sequences (empty, one beat,
   repeated and decreasing timestamps) with zero, negative and small values
   of subdivisions and min_beats and a negative, zero or default
   tolerance. *)

MaxBeatsAny == 3
SubdivisionsAny == {-1, 0, 1, DefaultSubdivisions}
MinBeatsAny == {-1, 0, 1, 2, DefaultMinBeats}
QuantTolAny == {<<-1, 100>>, <<0, 1>>, DefaultQuantTolSec}

ShortBeatSequences ==
    {<<>>} \cup
    UNION {{BeatsFrom(t0, gaps) : t0 \in StartSet, gaps \in [1..m -> IbiSet]}
           : m \in 0..(MaxBeatsAny - 1)}

InitAnyParams ==
    /\ beats \in ShortBeatSequences
    /\ subdivisions \in SubdivisionsAny
    /\ quant_tol_sec \in QuantTolAny
    /\ min_beats \in MinBeatsAny
    /\ pc = "call"
    /\ ibis = Unbound /\ mean_ibi = Unbound /\ mad = Unbound
    /\ robust_std = Unbound /\ cv = Unbound /\ phases = Unbound
    /\ sec_dist = Unbound /\ quant_score = Unbound /\ cv_score = Unbound
    /\ combined = Unbound /\ confidence = Unbound
    /\ result = None
    /\ NoCallers
    /\ NoFile
    /\ NoCommand
    /\ NoSearch
    /\ NoHelpers

NextAnyParams == TooFewBeats \/ Classify \/ ClassifyRaises

SpecAnyParams == InitAnyParams /\ [][NextAnyParams]_vars

(* The calls on the output of a beat detector that erred: a regular grid
   of up to MaxGridBeats beats, T ticks apart, of which one or two beats
   were missed or to which one or two beats were added between two grid
   beats. *)

MaxGridBeats == 8
PeriodSet == {100}
OffsetSet == {30, 40, 50}

GridBeats(t0, T, n) == {t0 + i * T : i \in 0..(n - 1)}

\* the errors possible on a grid: a grid beat missed, or a beat added
DetectorErrors(t0, T, n) ==
    {<<"missed", b>> : b \in GridBeats(t0, T, n)} \cup
    {<<"added", b + off>> : b \in GridBeats(t0, T, n - 1), off \in OffsetSet}

RECURSIVE SortedSeq(_)
SortedSeq(S) ==
    IF S = {} THEN <<>>
    ELSE LET m == CHOOSE x \in S : \A y \in S : x <= y
         IN  <<m>> \o SortedSeq(S \ {m})

\* the beats left of the grid after the errors errs
Damaged(t0, T, n, errs) ==
    SortedSeq((GridBeats(t0, T, n) \ {e[2] : e \in {d \in errs : d[1] = "missed"}})
              \cup {e[2] : e \in {d \in errs : d[1] = "added"}})

DamagedSequences ==
    UNION {{Damaged(t0, T, n, {e1, e2}) :
                e1 \in DetectorErrors(t0, T, n), e2 \in DetectorErrors(t0, T, n)}
           : t0 \in StartSet, T \in PeriodSet, n \in 2..MaxGridBeats}

InitBeatErrors ==
    /\ beats \in DamagedSequences
    /\ subdivisions = DefaultSubdivisions
    /\ quant_tol_sec = DefaultQuantTolSec
    /\ min_beats \in MinBeatsSet
    /\ pc = "call"
    /\ ibis = Unbound /\ mean_ibi = Unbound /\ mad = Unbound
    /\ robust_std = Unbound /\ cv = Unbound /\ phases = Unbound
    /\ sec_dist = Unbound /\ quant_score = Unbound /\ cv_score = Unbound
    /\ combined = Unbound /\ confidence = Unbound
    /\ result = None
    /\ NoCallers
    /\ NoFile
    /\ NoCommand
    /\ NoSearch
    /\ NoHelpers

SpecBeatErrors == InitBeatErrors /\ [][Next]_vars

-----------------------------------------------------------------------------
(* Several callers.  Each thread runs the function in a frame of its own:
   the parameters and the locals of rhythm.py:26-90 live in the frame, and
   the module has no global that the function reads or writes.  A call runs
   in four steps (guard and statistics, quantization, scoring and return)
   and the steps of the threads interleave freely. *)

MaxCalls == 4
MaxBeatsCalls == 3
Threads == {1, 2}
CallIbiSet == {100, 102}
CallMinBeatsSet == {2, 3}
CallSubdivisionsSet == {4}

CallBeatSequences ==
    {<<>>} \cup
    UNION {{BeatsFrom(0, gaps) : gaps \in [1..m -> CallIbiSet]}
           : m \in 0..(MaxBeatsCalls - 1)}

\* The frame of a thread that has not called yet.
IdleFrame ==
    [pc |-> "idle", beats |-> <<>>, subdivisions |-> DefaultSubdivisions,
     quant_tol_sec |-> DefaultQuantTolSec, min_beats |-> DefaultMinBeats,
     ibis |-> Unbound, mean_ibi |-> Unbound, mad |-> Unbound,
     robust_std |-> Unbound, cv |-> Unbound, phases |-> Unbound,
     sec_dist |-> Unbound, quant_score |-> Unbound, cv_score |-> Unbound,
     combined |-> Unbound, confidence |-> Unbound, result |-> None]

\* The frame at the entry of a call (rhythm.py:26-31).
NewFrame(bs, subdiv, tol, mb) ==
    [IdleFrame EXCEPT !.pc = "guard", !.beats = bs, !.subdivisions = subdiv,
                      !.quant_tol_sec = tol, !.min_beats = mb]

ArgsOf(fr) == <<fr.beats, fr.subdivisions, fr.quant_tol_sec, fr.min_beats>>

\* Faulty variant: beat_period kept in a module-level variable, so that a
\* call reads the value another call stored last.
BeatPeriod_Global(t) ==
    IF \E s \in Threads \ {t} : frames[s].mean_ibi # Unbound
    THEN frames[CHOOSE s \in Threads \ {t} :
                    frames[s].mean_ibi # Unbound].mean_ibi
    ELSE frames[t].mean_ibi

\* beat_period = mean_ibi, a local of the call
BeatPeriod(t) == frames[t].mean_ibi

\* No single call is modelled outside the threads.
NoSingleCall ==
    /\ beats = <<>>
    /\ subdivisions = DefaultSubdivisions
    /\ quant_tol_sec = DefaultQuantTolSec
    /\ min_beats = DefaultMinBeats
    /\ pc = "unused"
    /\ ibis = Unbound /\ mean_ibi = Unbound /\ mad = Unbound
    /\ robust_std = Unbound /\ cv = Unbound /\ phases = Unbound
    /\ sec_dist = Unbound /\ quant_score = Unbound /\ cv_score = Unbound
    /\ combined = Unbound /\ confidence = Unbound
    /\ result = None

single == <<args, pc, locals, result>>

ThreadCall(t) ==
    /\ frames[t].pc \in {"idle", "return"}
    /\ ncalls < MaxCalls
    /\ \E bs \in CallBeatSequences, subdiv \in CallSubdivisionsSet,
          mb \in CallMinBeatsSet :
           frames' = [frames EXCEPT ![t] =
               NewFrame(bs, subdiv, DefaultQuantTolSec, mb)]
    /\ ncalls' = ncalls + 1
    /\ UNCHANGED <<helpers, single, writer, command, search>>

\* rhythm.py:39-48
ThreadTooFewBeats(t) ==
    /\ frames[t].pc = "guard"
    /\ Guard(Len(frames[t].beats), frames[t].min_beats)
    /\ frames' = [frames EXCEPT
           ![t].result = [label |-> "uncertain", confidence |-> Flt(0),
                          reason |-> <<"too_few_beats">>, bpm |-> None,
                          beat_cv |-> None, quant_score |-> None,
                          n_beats |-> Len(frames[t].beats)],
           ![t].pc = "return"]
    /\ UNCHANGED <<helpers, ncalls, single, writer, command, search>>

\* rhythm.py:50-54
ThreadStats(t) ==
    /\ frames[t].pc = "guard"
    /\ ~Guard(Len(frames[t].beats), frames[t].min_beats)
    /\ LET d == NpDiff(BeatsArr(frames[t].beats))
           rs == RobustStd(Mad(d))
       IN  frames' = [frames EXCEPT
               ![t].ibis = d,
               ![t].mean_ibi = NpMean(d),
               ![t].mad = Mad(d),
               ![t].robust_std = rs,
               ![t].cv = Cv(rs, NpMean(d)),
               ![t].pc = "quant"]
    /\ UNCHANGED <<helpers, ncalls, single, writer, command, search>>

\* rhythm.py:57-64
ThreadQuant(t) ==
    /\ frames[t].pc = "quant"
    /\ Grids(frames[t].subdivisions) # <<>>
    /\ LET ph == Phases(BeatsArr(frames[t].beats), BeatPeriod(t))
           sd == SecDist(ph, Grids(frames[t].subdivisions), BeatPeriod(t))
       IN  frames' = [frames EXCEPT
               ![t].phases = ph,
               ![t].sec_dist = sd,
               ![t].quant_score = QuantScore(sd, frames[t].quant_tol_sec),
               ![t].pc = "score"]
    /\ UNCHANGED <<helpers, ncalls, single, writer, command, search>>

\* rhythm.py:68-90
ThreadScore(t) ==
    /\ frames[t].pc = "score"
    /\ LET cs == CvScore(frames[t].cv)
           comb == Combined(cs, frames[t].quant_score)
           conf == Confidence(comb)
       IN  frames' = [frames EXCEPT
               ![t].cv_score = cs,
               ![t].combined = comb,
               ![t].confidence = conf,
               ![t].result =
                   [label |-> Label(conf), confidence |-> conf,
                    reason |-> Reason(frames[t].cv, frames[t].quant_score),
                    bpm |-> Bpm(frames[t].mean_ibi),
                    beat_cv |-> frames[t].cv,
                    quant_score |-> frames[t].quant_score,
                    n_beats |-> Len(frames[t].beats)],
               ![t].pc = "return"]
    /\ UNCHANGED <<helpers, ncalls, single, writer, command, search>>

InitCalls ==
    /\ NoSingleCall
    /\ frames = [t \in Threads |-> IdleFrame]
    /\ ncalls = 0
    /\ NoFile
    /\ NoCommand
    /\ NoSearch
    /\ NoHelpers

NextCalls ==
    \E t \in Threads :
        \/ ThreadCall(t)
        \/ ThreadTooFewBeats(t)
        \/ ThreadStats(t)
        \/ ThreadQuant(t)
        \/ ThreadScore(t)

SpecCalls == InitCalls /\ [][NextCalls]_vars

-----------------------------------------------------------------------------
(* ID3 tags.  A string is the sequence of its characters; a dict is a
   function from its keys; a tag key is the sequence of the pieces it is
   concatenated from, so that "TXXX:musicbrainz_proposed_" + "TIT2" is
   <<"TXXX:", "musicbrainz_proposed_", "TIT2">>. *)

TIT2 == <<"TIT2">>
TPE1 == <<"TPE1">>
TALB == <<"TALB">>
TCON == <<"TCON">>

\* "TXXX:musicbrainz_proposed_" + k
ProposedKey(k) == <<"TXXX:", "musicbrainz_proposed_">> \o k

\* k.startswith("TXXX:")
IsTxxx(k) == k[1] = "TXXX:"

\* str.strip()
RECURSIVE Strip(_)
Strip(str) ==
    IF str = <<>> THEN str
    ELSE IF Head(str) = " " THEN Strip(Tail(str))
    ELSE IF str[Len(str)] = " " THEN Strip(SubSeq(str, 1, Len(str) - 1))
    ELSE str

Has(d, k) == k \in DOMAIN d

\* d[k] = v
Put(d, k, v) == [x \in DOMAIN d \cup {k} |-> IF x = k THEN v ELSE d[x]]

\* bool(d.get(k)): the key is present with a non-empty string
Truthy(d, k) == Has(d, k) /\ d[k] # <<>>

\* the frame is present and its text is not blank
HasValue(d, k) == Truthy(d, k) /\ Strip(d[k]) # <<>>

\* The tags object and the proposed dict while _write_mp3_tags works.
\* _maybe_add_or_propose (id3_io.py:188-203)
MaybeAddOrPropose(st, k) ==
    IF ~Truthy(st.proposed, k) THEN st
    ELSE IF HasValue(st.tags, k)
         THEN IF Strip(st.tags[k]) = Strip(st.proposed[k]) THEN st
              ELSE [st EXCEPT !.proposed =
                       Put(st.proposed, ProposedKey(k), st.proposed[k])]
    ELSE [st EXCEPT !.tags = Put(st.tags, k, st.proposed[k])]

\* _add_common_mp3_frames (id3_io.py:205-208)
AddCommonMp3Frames(st) ==
    MaybeAddOrPropose(
        MaybeAddOrPropose(
            MaybeAddOrPropose(MaybeAddOrPropose(st, TIT2), TPE1), TALB), TCON)

\* _add_txxx_frames: every TXXX key of proposed is added, replacing the frame
\* of the same description.
AddTxxxFrames(st) ==
    [st EXCEPT !.tags =
        [k \in DOMAIN st.tags \cup {x \in DOMAIN st.proposed : IsTxxx(x)} |->
            IF Has(st.proposed, k) /\ IsTxxx(k) THEN st.proposed[k]
            ELSE st.tags[k]]]

\* _write_mp3_tags up to the save
WriteMp3Tags(t, p) == AddTxxxFrames(AddCommonMp3Frames([tags |-> t, proposed |-> p]))

\* _maybe_set_or_propose (id3_io.py:285-295)
MaybeSetOrPropose(t, p, k) ==
    IF ~Truthy(p, k) THEN t
    ELSE IF HasValue(t, k) THEN Put(t, ProposedKey(k), p[k])
    ELSE Put(t, k, p[k])

\* the loop of id3_io.py:301-303: a TXXX key is set unless the tags already
\* hold a non-empty value for it
SetMissingTxxx(t, p) ==
    [k \in DOMAIN t \cup {x \in DOMAIN p : IsTxxx(x) /\ ~Truthy(t, x)} |->
        IF Has(p, k) /\ IsTxxx(k) /\ ~Truthy(t, k) THEN p[k] ELSE t[k]]

\* _write_generic_tags up to the save
WriteGenericTags(t, p) ==
    [tags |-> SetMissingTxxx(
                  MaybeSetOrPropose(
                      MaybeSetOrPropose(MaybeSetOrPropose(t, p, TIT2), p, TPE1),
                      p, TALB), p),
     proposed |-> p]

\* what the writer of the file's kind leaves in memory before the save
Written(k, t, p) ==
    IF k = "mp3" THEN WriteMp3Tags(t, p) ELSE WriteGenericTags(t, p)

(* apply_metadata (id3_io.py:112-132) on a file whose save behaves as sv:
   the tags on disk, the proposed dict and the backup afterwards, and
   whether the call raised.  A save that fails raises RuntimeError; a lost
   save returns normally and leaves the file as it was. *)
ApplyMetadata(k, t, p, b, sv) ==
    IF p = <<>>
    THEN [tags |-> t, proposed |-> p, backup |-> b, raised |-> FALSE]
    ELSE [tags |-> IF sv = "ok" THEN Written(k, t, p).tags ELSE t,
          proposed |-> Written(k, t, p).proposed,
          backup |-> t,
          raised |-> sv = "fails"]


(* The calls of apply_metadata explored: a file of either kind whose tags
   hold, for two of the four core frames, a blank value, the proposed value
   or another value, or nothing; a proposal left in TXXX by an earlier run;
   and one more TXXX frame. *)

Empty == <<>>
Blank == <<" ">>
ValA == <<"a">>
ValASpace == <<"a", " ">>
ValB == <<"b">>

TxxxProvenance == <<"TXXX:", "musicbrainz_provenance">>

FramePairs == {<<TIT2, TCON>>, <<TPE1, TALB>>}

\* the dicts with keys among DOMAIN vals and, for a key k, a value of vals[k]
Dicts(vals) ==
    UNION {{d \in [D -> UNION {vals[k] : k \in DOMAIN vals}] :
                \A k \in D : d[k] \in vals[k]}
           : D \in SUBSET DOMAIN vals}

FileTags(fr) ==
    Dicts([k \in {fr[1], fr[2], ProposedKey(fr[1]), TxxxProvenance} |->
              IF k = fr[1] THEN {Blank, ValA, ValB}
              ELSE IF k = fr[2] THEN {Blank, ValB}
              ELSE {ValA, ValB}])

Proposals(fr) ==
    Dicts([k \in {fr[1], fr[2], TxxxProvenance} |->
              IF k = fr[1] THEN {Empty, ValASpace} ELSE {ValASpace}])

\* apply_metadata(path, proposed) as one step
ApplyMetadataCall ==
    /\ step = "apply_metadata"
    /\ tags' = ApplyMetadata(kind, tags, proposed, backup, save).tags
    /\ proposed' = ApplyMetadata(kind, tags, proposed, backup, save).proposed
    /\ backup' = ApplyMetadata(kind, tags, proposed, backup, save).backup
    /\ step' = IF ApplyMetadata(kind, tags, proposed, backup, save).raised
               THEN "raised" ELSE "returned"
    /\ UNCHANGED <<helpers, kind, save, single, callers, command, search>>

InitApplyMetadata ==
    /\ NoSingleCall
    /\ NoCallers
    /\ NoCommand
    /\ NoSearch
    /\ NoHelpers
    /\ kind \in {"mp3", "generic"}
    /\ save \in {"ok", "fails", "lost"}
    /\ backup = None
    /\ \E fr \in FramePairs :
           /\ tags \in FileTags(fr)
           /\ proposed \in Proposals(fr)
    /\ step = "apply_metadata"

NextApplyMetadata == ApplyMetadataCall

SpecApplyMetadata == InitApplyMetadata /\ [][NextApplyMetadata]_vars

-----------------------------------------------------------------------------
(* The rhythm tags of a TimingResult: _write_rhythm_tags of analysis_to_id3
   (essentia/analysis_to_tags.py:191-219) and write_rhythm_id3_tags
   (essentia/rhythm.py:126-175).  A tag value is a text: <<"str", s>> for
   the string s, <<"int", i>> for the digits of i, <<"repr", x>> for
   str(float) of x and <<"fixed", q>> for q millionths printed with six
   decimals. *)

TxxxRhythmTiming == "TXXX:rhythm_timing"
TxxxRhythmTimingConfidence == "TXXX:rhythm_timing_confidence"
TxxxRhythmTimingReason == "TXXX:rhythm_timing_reason"
TxxxRhythmHuman == "TXXX:rhythm_human"
TxxxRhythmMachine == "TXXX:rhythm_machine"
TxxxBeatCv == "TXXX:beat_cv"
TxxxQuantScore == "TXXX:quant_score"

\* the literal "0"
ZeroText == <<"int", 0>>

\* str(label), str(reason)
StrOf(s) == <<"str", s>>

\* str(float(x)): the shortest text that float() reads back as x
StrFloat(x) == <<"repr", x>>

\* `conf or 0.0`: 0.0 for None and for zero, nan is true
OrZero(x) == IF x = None \/ x = Flt(0) THEN Flt(0) ELSE x

\* the quotient n / d scaled by 10^k, with its remainder, by long division
RECURSIVE LongDiv(_, _, _)
LongDiv(n, d, k) ==
    IF k = 0 THEN <<n \div d, n % d>>
    ELSE LET p == LongDiv(n, d, k - 1)
         IN  <<p[1] * 10 + (p[2] * 10) \div d, (p[2] * 10) % d>>

\* x in millionths, rounded half to even
Millionths(x) ==
    LET p == LongDiv(IAbs(x[1]), x[2], 6)
        q == IF 2 * p[2] > x[2] \/ (2 * p[2] = x[2] /\ p[1] % 2 = 1)
             THEN p[1] + 1 ELSE p[1]
    IN  Sgn(x[1]) * q

\* f"{x:.6f}": "nan" and "inf" for the floats that are not finite
Fixed6(x) == IF IsFinite(x) THEN <<"fixed", Millionths(x)>> ELSE <<"repr", x>>

\* float(text)
FloatOf(v) ==
    IF v[1] = "fixed" THEN Rat(v[2], 1000000)
    ELSE IF v[1] = "int" THEN Flt(v[2])
    ELSE IF v[1] = "repr" THEN v[2]
    ELSE NaN

WriteRhythmTags(out, t) ==
    IF t = <<>> THEN out
    ELSE
    LET timing_ == t[1]
        label == timing_.label
        conf == timing_.confidence
        o1 == Put(Put(out, TxxxRhythmTiming, StrOf(label)),
                  TxxxRhythmTimingConfidence, StrFloat(conf))
        o2 == IF label = "human"
              THEN Put(Put(o1, TxxxRhythmHuman, StrFloat(OrZero(conf))),
                       TxxxRhythmMachine, ZeroText)
              ELSE IF label = "clicktrack"
              THEN Put(Put(o1, TxxxRhythmMachine, StrFloat(OrZero(conf))),
                       TxxxRhythmHuman, ZeroText)
              ELSE o1
        o3 == IF timing_.beat_cv # None
              THEN Put(o2, TxxxBeatCv, StrFloat(timing_.beat_cv)) ELSE o2
    IN  IF timing_.quant_score # None
        THEN Put(o3, TxxxQuantScore, StrFloat(timing_.quant_score)) ELSE o3

HumanVal_Always(a) == Fixed6(a.confidence)

\* human_val and machine_val (rhythm.py:147-148)
HumanVal(a) == IF a.label = "human" THEN Fixed6(a.confidence) ELSE ZeroText

MachineVal(a) ==
    IF a.label = "clicktrack" THEN Fixed6(a.confidence) ELSE ZeroText

WriteRhythmId3(frames_, a) ==
    LET f1 == Put(Put(frames_, TxxxRhythmHuman, HumanVal(a)),
                  TxxxRhythmMachine, MachineVal(a))
        f2 == Put(Put(f1, TxxxRhythmTiming, StrOf(a.label)),
                  TxxxRhythmTimingConfidence, Fixed6(a.confidence))
        f3 == IF a.reason # <<>>
              THEN Put(f2, TxxxRhythmTimingReason, StrOf(a.reason)) ELSE f2
        f4 == IF a.beat_cv # None
              THEN Put(f3, TxxxBeatCv, Fixed6(a.beat_cv)) ELSE f3
    IN  IF a.quant_score # None
        THEN Put(f4, TxxxQuantScore, Fixed6(a.quant_score)) ELSE f4

\* analysis_to_id3 reaches _write_rhythm_tags with the out dict it has built
WriteRhythmTagsCall ==
    /\ rhythm_out = <<>>
    /\ rhythm_out' = <<WriteRhythmTags(<<>>, timing)>>
    /\ UNCHANGED <<timing, id3, saved, single, callers, writer, command,
                   search, panns, download, analysis, answer>>

WriteRhythmId3TagsCall ==
    /\ ~saved
    /\ timing # <<>>
    /\ id3' = WriteRhythmId3(id3, timing[1])
    /\ saved' = TRUE
    /\ UNCHANGED <<timing, rhythm_out, single, callers, writer, command,
                   search, panns, download, analysis, answer>>

ConfidenceSet ==
    {Flt(0), Rat(1, 2), Rat(2, 3), Rat(1234567, 10000000), Flt(1), NaN}

TimingResults ==
    [label : {"human", "clicktrack", "uncertain"},
     confidence : ConfidenceSet,
     reason : {<<"ok">>},
     beat_cv : {None, Rat(1, 20)},
     quant_score : {None, Rat(1, 3)}]

\* the rhythm frames a file may hold before
StaleFrames ==
    {<<>>,
     [k \in {TxxxRhythmTiming, TxxxRhythmHuman, TxxxRhythmMachine} |->
         IF k = TxxxRhythmTiming THEN StrOf("human")
         ELSE IF k = TxxxRhythmHuman THEN <<"fixed", 900000>> ELSE ZeroText],
     [k \in {TxxxRhythmMachine} |-> <<"fixed", 700000>>]}

InitRhythmTags ==
    /\ NoSingleCall
    /\ NoCallers
    /\ NoFile
    /\ NoCommand
    /\ NoSearch
    /\ NoPanns /\ NoDownload /\ NoAnalysis
    /\ timing \in {<<>>} \cup {<<t>> : t \in TimingResults}
    /\ rhythm_out = <<>>
    /\ id3 \in StaleFrames
    /\ saved = FALSE

NextRhythmTags == WriteRhythmTagsCall \/ WriteRhythmId3TagsCall

SpecRhythmTags == InitRhythmTags /\ [][NextRhythmTags]_vars

-----------------------------------------------------------------------------
(* The id3 command with --fetch-metadata on one file.  A run goes through
   _process_file and _maybe_propose_and_apply up to the preview, then the
   confirmation, the cover-art embed, apply_metadata, the verification and
   the counters of the summary; the command can then be run again on the
   file as the earlier run left it. *)

TxxxRecordingId == <<"TXXX:", "musicbrainz_recording_id">>
TxxxReleaseId == <<"TXXX:", "musicbrainz_release_id">>

\* the key read_id3 gives the picture frame that _embed_cover_mp3 adds
ApicCover == <<"APIC:", "Cover">>

\* k.startswith("APIC")
IsApic(k) == k[1] = "APIC:"

\* the field of mb_info that propose_metadata_from_mb copies to each key
MbField ==
    [k \in {TIT2, TPE1, TALB, TxxxRecordingId, TxxxReleaseId, TxxxProvenance} |->
        IF k = TIT2 THEN "recording_title"
        ELSE IF k = TPE1 THEN "artist"
        ELSE IF k = TALB THEN "release_title"
        ELSE IF k = TxxxRecordingId THEN "recording_id"
        ELSE IF k = TxxxReleaseId THEN "release_id"
        ELSE "provenance"]

\* propose_metadata_from_mb: a key for every field that is present and
\* not empty
ProposeMetadataFromMb(mb) ==
    [k \in {x \in DOMAIN MbField : Truthy(mb, MbField[x])} |-> mb[MbField[k]]]

\* the branch of _compute_delta that stores delta[k] = v
DeltaDirect(p, e, k) ==
    /\ Has(p, k)
    /\ IF IsTxxx(k) THEN ~Has(e, k) \/ Strip(e[k]) # Strip(p[k])
       ELSE ~Truthy(e, k)

\* the branch of _compute_delta that stores delta[proposed_key] = v
DeltaProposed(p, e, k) ==
    /\ Has(p, k)
    /\ ~IsTxxx(k)
    /\ Truthy(e, k)
    /\ Strip(e[k]) # Strip(p[k])
    /\ \/ ~Has(e, ProposedKey(k))
       \/ Strip(e[ProposedKey(k)]) # Strip(p[k])

\* the core frame of "TXXX:musicbrainz_proposed_<FRAME>"
CoreOf(pk) == SubSeq(pk, 3, Len(pk))

\* _compute_delta(proposed, existing_tags); None is read as the empty dict
ComputeDelta_IgnoresProposedFrame(p, e) ==
    [k \in {x \in DOMAIN p : DeltaDirect(p, e, x)}
           \cup {ProposedKey(x) : x \in {y \in DOMAIN p : ~IsTxxx(y) /\ Truthy(e, y)
                                            /\ Strip(e[y]) # Strip(p[y])}} |->
        IF DeltaDirect(p, e, k) THEN p[k] ELSE p[CoreOf(k)]]

ComputeDelta(p, e) ==
    [k \in {x \in DOMAIN p : DeltaDirect(p, e, x)}
           \cup {ProposedKey(x) : x \in {y \in DOMAIN p : DeltaProposed(p, e, y)}} |->
        IF DeltaDirect(p, e, k) THEN p[k] ELSE p[CoreOf(k)]]

\* the result dict before anything is applied
DefaultResult ==
    [applied |-> FALSE, embed |-> "None", skipped |-> FALSE,
     rhythm_timing |-> None]

\* the result of the early return for a file that holds a MusicBrainz id
SkippedResult == [DefaultResult EXCEPT !.skipped = TRUE]

HasMbIds_ReleaseOnly(t) == Truthy(t, TxxxReleaseId)

\* `tags.get(recording id) or tags.get(release id)`
HasMbIds(t) == Truthy(t, TxxxRecordingId) \/ Truthy(t, TxxxReleaseId)

\* the bytes _download_cover_art returns
ImageBytes == <<"image">>

\* _prepare_embed gets as far as the download
DownloadsCover(o, mb, e) ==
    /\ o.embed_cover_art
    /\ Truthy(mb, "cover_art")
    /\ ~\E k \in DOMAIN e : IsApic(k)

\* _file_result_to_counters
FileResultToCounters(res) ==
    [tags_applied |-> IF res.applied THEN 1 ELSE 0,
     covers_embedded |-> IF res.embed = "True" THEN 1 ELSE 0,
     covers_failed |-> IF res.embed = "False" THEN 1 ELSE 0,
     files_skipped |-> IF res.skipped THEN 1 ELSE 0,
     rhythm_detected |-> IF res.rhythm_timing # None THEN 1 ELSE 0,
     rhythm_human |->
         IF res.rhythm_timing # None /\ res.rhythm_timing[1].label = "human"
         THEN 1 ELSE 0,
     rhythm_clicktrack |->
         IF res.rhythm_timing # None
            /\ res.rhythm_timing[1].label = "clicktrack"
         THEN 1 ELSE 0,
     rhythm_uncertain |->
         IF res.rhythm_timing # None
            /\ res.rhythm_timing[1].label \notin {"human", "clicktrack"}
         THEN 1 ELSE 0]

NoCounters ==
    [tags_applied |-> 0, covers_embedded |-> 0, covers_failed |-> 0,
     files_skipped |-> 0, rhythm_detected |-> 0, rhythm_human |-> 0,
     rhythm_clicktrack |-> 0, rhythm_uncertain |-> 0]

\* the file leaves the run with the result res
Return(res) ==
    /\ file_result' = res
    /\ step' = "result"

(* The analysis of the file (cli/id3_cli_process.py:59-167).  The model's
   `analysis` is what extract_basic and the sidecar written from it hold:
   the bpm, and the beats as the tuple of the TimingResult that
   detect_rhythm_timing_from_beats gives for them (<<>> without beats). *)

TBPM == <<"TBPM">>
TxxxAnalysisProvenance == <<"TXXX:", "provenance">>
FrameRhythmTiming == <<"TXXX:", "rhythm_timing">>
FrameRhythmHuman == <<"TXXX:", "rhythm_human">>
FrameRhythmMachine == <<"TXXX:", "rhythm_machine">>

\* the key of the tag dicts for a key of the dict of _write_rhythm_tags
FrameKeyOf(k) ==
    IF k = TxxxRhythmTiming THEN FrameRhythmTiming
    ELSE IF k = TxxxRhythmHuman THEN FrameRhythmHuman
    ELSE IF k = TxxxRhythmMachine THEN FrameRhythmMachine
    ELSE IF k = TxxxRhythmTimingConfidence
    THEN <<"TXXX:", "rhythm_timing_confidence">>
    ELSE IF k = TxxxBeatCv THEN <<"TXXX:", "beat_cv">>
    ELSE <<"TXXX:", "quant_score">>

\* str(float(x)) in characters, for the floats of the runs explored
ReprChars(x) ==
    IF x = Flt(0) THEN <<"0", ".", "0">>
    ELSE IF x = Rat(1, 2) THEN <<"0", ".", "5">>
    ELSE IF x = Flt(1) THEN <<"1", ".", "0">>
    ELSE <<"1", "2", "0", ".", "0">>

\* a text in characters; a label is a single piece
CharsOf(v) ==
    IF v[1] = "str" THEN <<v[2]>>
    ELSE IF v[1] = "int" THEN <<"0">>
    ELSE ReprChars(v[2])

\* `any(k in tags for k in existing_rhythm_keys)`
HasRhythmTags(t) ==
    Has(t, FrameRhythmTiming) \/ Has(t, FrameRhythmHuman)
    \/ Has(t, FrameRhythmMachine)

\* what _maybe_run_analysis does, in order, and what it returns: the
\* function has no return statement with a value
MaybeRunAnalysis(o, t, a) ==
    [log |-> IF ~o.analyze THEN <<>>
             ELSE IF t # <<>> /\ HasRhythmTags(t) THEN <<"sidecar">>
             ELSE <<"sidecar">>
                  \o (IF a.beats # <<>> THEN <<"detect">> ELSE <<>>),
     returns |-> None]

\* analysis_to_id3 on an analysis without semantic block
AnalysisToId3(a, t) ==
    LET out1 == [k \in {TxxxAnalysisProvenance} |-> <<"{", "}">>]
        out2 == IF a.bpm # None THEN Put(out1, TBPM, ReprChars(a.bpm))
                ELSE out1
        r == WriteRhythmTags(<<>>, t)
    IN  [k \in DOMAIN out2 \cup {FrameKeyOf(x) : x \in DOMAIN r} |->
            IF \E x \in DOMAIN r : FrameKeyOf(x) = k
            THEN CharsOf(r[CHOOSE x \in DOMAIN r : FrameKeyOf(x) = k])
            ELSE out2[k]]

(* _process_file, with _apply_analysis_tags and _maybe_propose_and_apply up
   to the preview.  The cli package runs the analysis first, returns from
   the --apply-tags branch before anything else, skips a file with a
   MusicBrainz id and hands the tags it read to _maybe_propose_and_apply;
   the old modules do none of this. *)
ProcessFile ==
    /\ step = "process"
    /\ IF pipeline = "cli"
          /\ ~(opts.fetch_metadata \/ opts.analyze \/ opts.apply_tags)
       THEN /\ Return(DefaultResult)
            /\ UNCHANGED <<existing_tags, proposed, delta, embed_would_write,
                           cover_bytes, log>>
       ELSE IF pipeline = "cli" /\ opts.apply_tags
       THEN LET timing_ == MaybeRunAnalysis(opts, tags, analysis).returns
                ran == MaybeRunAnalysis(opts, tags, analysis).log
                res == IF timing_ # None
                       THEN [DefaultResult EXCEPT !.rhythm_timing = timing_]
                       ELSE DefaultResult
            IN  /\ existing_tags' = tags
                /\ proposed' = AnalysisToId3(analysis, analysis.beats)
                /\ delta' = ComputeDelta(proposed', tags)
                /\ log' = ran
                          \o (IF analysis.beats # <<>> THEN <<"detect">>
                              ELSE <<>>)
                          \o (IF delta' = <<>> THEN <<>> ELSE <<"preview">>)
                /\ IF delta' = <<>>
                   THEN Return(res)
                   ELSE /\ step' = "confirm"
                        /\ file_result' = res
                /\ UNCHANGED <<embed_would_write, cover_bytes>>
       ELSE IF pipeline = "cli" /\ HasMbIds(tags)
       THEN /\ Return(SkippedResult)
            /\ log' = MaybeRunAnalysis(opts, tags, analysis).log
            /\ UNCHANGED <<existing_tags, proposed, delta, embed_would_write,
                           cover_bytes>>
       ELSE IF mb_info = <<>> \/ ~opts.apply_metadata
       THEN /\ Return(DefaultResult)
            /\ log' = MaybeRunAnalysis(opts, tags, analysis).log
                      \o <<"lookup">>
            /\ UNCHANGED <<existing_tags, proposed, delta, embed_would_write,
                           cover_bytes>>
       ELSE /\ existing_tags' = IF pipeline = "cli" THEN tags ELSE None
            /\ proposed' = ProposeMetadataFromMb(mb_info)
            /\ \E dl \in IF DownloadsCover(opts, mb_info, existing_tags')
                         THEN {"ok", "fails"} ELSE {"none"} :
                   /\ embed_would_write' = (dl = "ok")
                   /\ cover_bytes' = IF dl = "ok" THEN ImageBytes ELSE None
                   /\ delta' = IF proposed' = <<>> /\ ~embed_would_write'
                               THEN <<>>
                               ELSE ComputeDelta(proposed', existing_tags')
                   /\ log' = MaybeRunAnalysis(opts, tags, analysis).log
                             \o <<"lookup">>
                             \o (IF dl = "none" THEN <<>> ELSE <<"download">>)
                             \o (IF delta' = <<>> /\ ~embed_would_write'
                                 THEN <<"nothing">> ELSE <<"preview">>)
                   /\ IF delta' = <<>> /\ ~embed_would_write'
                      THEN Return(DefaultResult)
                      ELSE /\ step' = "confirm"
                           /\ UNCHANGED file_result
    /\ UNCHANGED <<helpers, file, pipeline, opts, mb_info, counters, history,
                   single, callers, search>>

\* str.lower() on the characters an answer is made of
Lower(str) ==
    [i \in 1..Len(str) |->
        IF str[i] = "Y" THEN "y"
        ELSE IF str[i] = "E" THEN "e"
        ELSE IF str[i] = "S" THEN "s"
        ELSE IF str[i] = "N" THEN "n"
        ELSE str[i]]

\* what the user types at the prompt
Answers == {<<"y">>, <<" ", "Y", "e", "s", " ">>, <<"n">>, <<>>, <<"y", "e">>}

IsYes_AnyPrefix(ans) ==
    Lower(Strip(ans)) \in {<<"y">>, <<"y", "e">>, <<"y", "e", "s">>}

\* ans.strip().lower() in ("y", "yes")
IsYes(ans) == Lower(Strip(ans)) \in {<<"y">>, <<"y", "e", "s">>}

\* _confirm_apply and the return of an unconfirmed run
ConfirmApply ==
    /\ step = "confirm"
    /\ \E ans \in IF opts.yes THEN {None} ELSE Answers :
           IF opts.yes \/ IsYes(ans)
           THEN /\ log' = log \o (IF opts.yes THEN <<>> ELSE <<"prompt">>)
                /\ step' = IF pipeline = "cli" /\ opts.apply_tags
                           THEN "apply" ELSE "embed"
                /\ answer' = ans
                /\ UNCHANGED file_result
           ELSE /\ log' = log \o <<"prompt", "aborted">>
                /\ answer' = ans
                /\ Return(DefaultResult)
    /\ UNCHANGED <<tagging, panns, download, analysis, file, proposed,
                   pipeline, opts, mb_info, existing_tags, delta,
                   embed_would_write, cover_bytes, counters, history, single,
                   callers, search>>

\* the step that follows the embed
AfterEmbed_IgnoresFailure(outcome, d) ==
    IF d = <<>> THEN "result" ELSE "apply"

AfterEmbed(outcome, d) ==
    IF outcome = "False" THEN "result"
    ELSE IF d = <<>> THEN "result"
    ELSE "apply"

(* _perform_embed and the two returns that follow it.  With the bytes of the
   preview _embed_cover_mp3 is called whatever the suffix; without them
   _maybe_embed_cover downloads again, for a .mp3 file without a picture.
   The frame is added to the ID3 tag of the file, which for a file that is
   not an MP3 is not among the tags read_id3 returns. *)
PerformEmbed ==
    /\ step = "embed"
    /\ \E dl \in {"ok", "fails"}, sv \in {"ok", "fails"} :
           LET has_apic == \E k \in DOMAIN tags : IsApic(k)
               downloads == cover_bytes = None /\ Truthy(mb_info, "cover_art")
                            /\ kind = "mp3" /\ ~has_apic
               embeds == cover_bytes # None \/ (downloads /\ dl = "ok")
               outcome ==
                   IF ~opts.embed_cover_art THEN "None"
                   ELSE IF cover_bytes # None
                        THEN IF has_apic \/ sv = "ok" THEN "True" ELSE "False"
                   ELSE IF ~downloads THEN "None"
                   ELSE IF dl = "ok" /\ sv = "ok" THEN "True" ELSE "False"
           IN  /\ file_result' = [DefaultResult EXCEPT !.embed = outcome]
               /\ tags' = IF opts.embed_cover_art /\ embeds /\ outcome = "True"
                             /\ kind = "mp3" /\ ~has_apic
                          THEN Put(tags, ApicCover, ImageBytes) ELSE tags
               /\ log' = log \o <<"perform_embed">>
                         \o (IF opts.embed_cover_art /\ downloads
                             THEN <<"download">> ELSE <<>>)
                         \o (IF opts.embed_cover_art /\ embeds
                             THEN <<"embed_cover">> ELSE <<>>)
               /\ step' = AfterEmbed(outcome, delta)
    /\ UNCHANGED <<helpers, kind, save, backup, proposed, pipeline, opts, mb_info,
                   existing_tags, delta, embed_would_write, cover_bytes,
                   counters, history, single, callers, search>>

(* _apply_metadata_safe: apply_metadata on the whole proposed dict, any
   exception turned into a result that is not applied.  The old modules
   report the apply as applied when the call returned. *)
ApplyMetadataSafe ==
    /\ step = "apply"
    /\ tags' = ApplyMetadata(kind, tags, proposed, backup, save).tags
    /\ proposed' = ApplyMetadata(kind, tags, proposed, backup, save).proposed
    /\ backup' = ApplyMetadata(kind, tags, proposed, backup, save).backup
    /\ log' = Append(log, "apply_metadata")
    /\ IF ApplyMetadata(kind, tags, proposed, backup, save).raised
       THEN Return(file_result)
       ELSE IF pipeline = "legacy"
       THEN Return([file_result EXCEPT !.applied = TRUE])
       ELSE /\ step' = "verify"
            /\ UNCHANGED file_result
    /\ UNCHANGED <<helpers, kind, save, pipeline, opts, mb_info, existing_tags, delta,
                   embed_would_write, cover_bytes, counters, history, single,
                   callers, search>>

\* _verify_apply_result: the file is read again and the delta of the
\* proposed dict against it must be empty
VerifyApplyResult ==
    /\ step = "verify"
    /\ log' = Append(log, "verify")
    /\ Return([file_result EXCEPT !.applied = ComputeDelta(proposed, tags) = <<>>])
    /\ UNCHANGED <<helpers, file, proposed, pipeline, opts, mb_info, existing_tags, delta,
                   embed_would_write, cover_bytes, counters, history, single,
                   callers, search>>

\* the result of the file is added to the totals of the summary
CountFileResult ==
    /\ step = "result"
    /\ counters' = FileResultToCounters(file_result)
    /\ step' = "summary"
    /\ UNCHANGED <<helpers, file, proposed, pipeline, opts, mb_info, existing_tags, delta,
                   embed_would_write, cover_bytes, file_result, log, history,
                   single, callers, search>>

\* the runs of the command on the file
MaxRuns == 2

\* the same command is run again on the file, with the same lookup result
RunAgain ==
    /\ step = "summary"
    /\ Len(history) + 1 < MaxRuns
    /\ history' = Append(history, [result |-> file_result, log |-> log,
                                  counters |-> counters])
    /\ proposed' = <<>>
    /\ existing_tags' = None
    /\ delta' = <<>>
    /\ embed_would_write' = FALSE
    /\ cover_bytes' = None
    /\ file_result' = DefaultResult
    /\ counters' = NoCounters
    /\ log' = <<>>
    /\ answer' = <<>>
    /\ step' = "process"
    /\ UNCHANGED <<tagging, panns, download, analysis, file, pipeline, opts,
                   mb_info, single, callers, search>>

(* The runs explored: a file of either kind with or without a title, a
   proposal of an earlier run, a provenance, a recording id and a picture;
   a lookup result without a match, or with a title and with or without a
   provenance, a recording id and a cover. *)
CommandFileTags ==
    Dicts([k \in {TIT2, ProposedKey(TIT2), TxxxProvenance, TxxxRecordingId,
                  ApicCover} |->
              IF k = TIT2 THEN {ValA, ValB}
              ELSE IF k = ProposedKey(TIT2) THEN {ValA}
              ELSE IF k = TxxxProvenance THEN {ValA, ValB}
              ELSE IF k = TxxxRecordingId THEN {ValA}
              ELSE {ImageBytes}])

\* no match, or a recording with a title
MbInfos ==
    {<<>>} \cup
    {mb \in Dicts([k \in {"recording_title", "provenance", "recording_id",
                          "cover_art"} |->
                      IF k = "recording_title" THEN {ValASpace}
                      ELSE IF k = "provenance" THEN {ValASpace}
                      ELSE IF k = "recording_id" THEN {ValA}
                      ELSE {<<"url">>}]) : Has(mb, "recording_title")}

\* --apply-metadata with or without --yes and --embed-cover-art, or none
Options ==
    {o \in [apply_metadata : BOOLEAN, yes : BOOLEAN, embed_cover_art : BOOLEAN,
            fetch_metadata : {TRUE}, analyze : {FALSE}, apply_tags : {FALSE}] :
        o.apply_metadata \/ (~o.yes /\ ~o.embed_cover_art)}

\* the state in which the first run of the command starts
StartsCommand ==
    /\ NoSingleCall
    /\ NoCallers
    /\ NoSearch
    /\ NoHelpers
    /\ backup = None
    /\ proposed = <<>>
    /\ existing_tags = None
    /\ delta = <<>>
    /\ embed_would_write = FALSE
    /\ cover_bytes = None
    /\ file_result = DefaultResult
    /\ counters = NoCounters
    /\ log = <<>>
    /\ history = <<>>
    /\ step = "process"

InitCli ==
    /\ StartsCommand
    /\ pipeline = "cli"
    /\ kind \in {"mp3", "generic"}
    /\ save \in {"ok", "fails", "lost"}
    /\ tags \in CommandFileTags
    /\ mb_info \in MbInfos
    /\ opts \in Options

NextCli ==
    \/ ProcessFile
    \/ ConfirmApply
    \/ PerformEmbed
    \/ ApplyMetadataSafe
    \/ VerifyApplyResult
    \/ CountFileResult
    \/ RunAgain

SpecCli == InitCli /\ [][NextCli]_vars

(* The command of the cli package and the command of the old modules
   id3_cli_process.py and id3_cli_apply.py, on a file without a picture. *)
BothFileTags ==
    Dicts([k \in {TIT2, TxxxProvenance, TxxxRecordingId} |->
              IF k = TIT2 THEN {ValA, ValB}
              ELSE IF k = TxxxProvenance THEN {ValB}
              ELSE {ValA}])

InitBoth ==
    /\ StartsCommand
    /\ pipeline \in {"cli", "legacy"}
    /\ kind \in {"mp3", "generic"}
    /\ save \in {"ok", "fails", "lost"}
    /\ tags \in BothFileTags
    /\ mb_info \in MbInfos
    /\ opts \in Options

SpecBoth == InitBoth /\ [][NextCli]_vars

(* The command of the cli package with --analyze and --apply-tags: a file
   with or without a MusicBrainz id, rhythm frames and the provenance
   frame of an earlier analysis, with beats that the detector classifies
   or without beats, with or without a bpm. *)
AnalysisTimings ==
    {[label |-> "human", confidence |-> Flt(0), beat_cv |-> None,
      quant_score |-> None],
     [label |-> "clicktrack", confidence |-> Flt(1), beat_cv |-> None,
      quant_score |-> None],
     [label |-> "uncertain", confidence |-> Rat(1, 2), beat_cv |-> None,
      quant_score |-> None]}

Analyses ==
    [beats : {<<>>} \cup {<<t>> : t \in AnalysisTimings},
     bpm : {None, Flt(120)}]

AnalysisFileTags ==
    Dicts([k \in {TxxxRecordingId, FrameRhythmTiming, FrameRhythmMachine,
                  TxxxAnalysisProvenance} |->
              IF k = TxxxRecordingId THEN {ValA}
              ELSE IF k = FrameRhythmTiming THEN {<<"human">>}
              ELSE IF k = FrameRhythmMachine THEN {<<"0", ".", "5">>}
              ELSE {<<"{", "}">>}])

AnalysisMbInfos ==
    {<<>>,
     [k \in {"recording_title", "cover_art"} |->
         IF k = "recording_title" THEN ValASpace ELSE <<"url">>]}

\* every combination of the options, --embed-cover-art only with
\* --fetch-metadata --apply-metadata alone
AnalysisOptions ==
    {o \in [apply_metadata : BOOLEAN, yes : BOOLEAN,
            embed_cover_art : BOOLEAN, fetch_metadata : BOOLEAN,
            analyze : BOOLEAN, apply_tags : BOOLEAN] :
        o.embed_cover_art =>
            /\ o.apply_metadata /\ o.fetch_metadata
            /\ ~o.analyze /\ ~o.apply_tags}

InitAnalysis ==
    /\ NoSingleCall
    /\ NoCallers
    /\ NoSearch
    /\ NoTagging /\ NoPanns /\ NoDownload
    /\ backup = None
    /\ proposed = <<>>
    /\ existing_tags = None
    /\ delta = <<>>
    /\ embed_would_write = FALSE
    /\ cover_bytes = None
    /\ file_result = DefaultResult
    /\ counters = NoCounters
    /\ log = <<>>
    /\ history = <<>>
    /\ step = "process"
    /\ pipeline = "cli"
    /\ kind \in {"mp3", "generic"}
    /\ save \in {"ok", "fails"}
    /\ tags \in AnalysisFileTags
    /\ mb_info \in AnalysisMbInfos
    /\ opts \in AnalysisOptions
    /\ analysis \in Analyses
    /\ answer = <<>>

SpecAnalysis == InitAnalysis /\ [][NextCli]_vars

-----------------------------------------------------------------------------
(* The selection among the candidates of a MusicBrainz search.  A candidate
   is a record of its id, its title, the name of its artist credit (None
   without one) and its score as the search gave it. *)

\* str.casefold() on the letters titles and names are made of
Casefold(str) ==
    [i \in 1..Len(str) |->
        IF str[i] = "A" THEN "a" ELSE IF str[i] = "B" THEN "b" ELSE str[i]]

\* _normalize: (s or "").strip().casefold(); None and "" are both <<>>
Normalize(s) == Casefold(Strip(s))

\* the value of a decimal digit
DigitValue(c) ==
    IF c = "0" THEN 0 ELSE IF c = "1" THEN 1 ELSE IF c = "2" THEN 2
    ELSE IF c = "3" THEN 3 ELSE IF c = "4" THEN 4 ELSE IF c = "5" THEN 5
    ELSE IF c = "6" THEN 6 ELSE IF c = "7" THEN 7 ELSE IF c = "8" THEN 8
    ELSE IF c = "9" THEN 9 ELSE -1

\* int(val) for a string of digits, read from the left onto acc
RECURSIVE ParseDigits(_, _)
ParseDigits(str, acc) ==
    IF str = <<>> THEN acc
    ELSE ParseDigits(Tail(str), 10 * acc + DigitValue(Head(str)))

\* _score: an int as it is, a string through int(), 0 when int() raises or
\* there is no score
Score(r) ==
    IF r.score = None THEN 0
    ELSE IF r.score[1] = "int" THEN r.score[2]
    ELSE IF r.score[2] # <<>> /\ \A i \in DOMAIN r.score[2] :
                                    DigitValue(r.score[2][i]) >= 0
         THEN ParseDigits(r.score[2], 0)
    ELSE 0

\* the code point of a character of an id
CodePoint(c) == IF c = "B" THEN 66 ELSE IF c = "a" THEN 97 ELSE 98

\* x < y for two Python strings
RECURSIVE StrLess(_, _)
StrLess(x, y) ==
    IF y = <<>> THEN FALSE
    ELSE IF x = <<>> THEN TRUE
    ELSE IF CodePoint(Head(x)) # CodePoint(Head(y))
         THEN CodePoint(Head(x)) < CodePoint(Head(y))
    ELSE StrLess(Tail(x), Tail(y))

\* _key(a) < _key(b) for the key (-score, id)
KeyLess(a, b) ==
    \/ -Score(a) < -Score(b)
    \/ -Score(a) = -Score(b) /\ StrLess(a.id, b.id)

\* min(cands, key=_key) from the left: the first candidate of the smallest key
RECURSIVE MinByKey(_, _)
MinByKey(best, rest) ==
    IF rest = <<>> THEN best
    ELSE MinByKey(IF KeyLess(Head(rest), best) THEN Head(rest) ELSE best,
                  Tail(rest))

BestByScoreAndId_First(cs) == Head(cs)

\* _best_by_score_and_id
BestByScoreAndId(cs) == MinByKey(Head(cs), Tail(cs))

ExactTitle(recs, title_in) ==
    SelectSeq(recs, LAMBDA r : Normalize(r.title) = Normalize(title_in))

ExactArtist(recs, artist_in) ==
    SelectSeq(recs, LAMBDA r : Normalize(r.artist) = Normalize(artist_in))

SelectCandidate_ByScoreOnly(recs_in, title_in, artist_in) ==
    BestByScoreAndId(recs_in)

\* _select_candidate
SelectCandidate(recs_in, title_in, artist_in) ==
    IF ExactTitle(recs_in, title_in) # <<>>
    THEN IF artist_in # <<>>
            /\ ExactArtist(ExactTitle(recs_in, title_in), artist_in) # <<>>
         THEN BestByScoreAndId(
                  ExactArtist(ExactTitle(recs_in, title_in), artist_in))
         ELSE BestByScoreAndId(ExactTitle(recs_in, title_in))
    ELSE IF artist_in # <<>> /\ ExactArtist(recs_in, artist_in) # <<>>
    THEN BestByScoreAndId(ExactArtist(recs_in, artist_in))
    ELSE BestByScoreAndId(recs_in)

\* _find_best_recording after the search: None without candidates
FindBestRecording ==
    /\ selected = <<>>
    /\ selected' = IF cands = <<>> THEN <<None>>
                   ELSE <<SelectCandidate(cands, qtitle, qartist)>>
    /\ UNCHANGED <<helpers, qtitle, qartist, cands, full, mb_out, single, callers, writer,
                   command>>

(* The searches explored: a query with or without a title and with an
   artist, a blank artist or none; up to three recordings of different ids,
   in every order, each with a title, with or without an artist and with a
   score as an int or as a string. *)
CandidateIds == {<<"a">>, <<"B">>, <<"a", "a">>}

Candidates ==
    [id : CandidateIds,
     title : {<<"A", " ">>, <<"b">>},
     artist : {None, <<"b">>},
     score : {<<"int", 90>>, <<"str", <<"9", "0">>>>, <<"int", 100>>}]

\* the lists of candidates of pairwise different ids
RECURSIVE CandidateLists(_)
CandidateLists(ids) ==
    {<<>>} \cup
    UNION {{<<c>> \o l : l \in CandidateLists(ids \ {c.id})}
           : c \in {x \in Candidates : x.id \in ids}}

SearchResults == CandidateLists(CandidateIds)

InitSearch ==
    /\ NoSingleCall
    /\ NoCallers
    /\ NoFile
    /\ NoCommand
    /\ NoHelpers
    /\ qtitle \in {None, <<"a">>}
    /\ qartist \in {None, <<"B">>, <<" ">>}
    /\ cands \in SearchResults
    /\ selected = <<>>
    /\ full = <<>>
    /\ mb_out = <<>>

NextSearch == FindBestRecording

SpecSearch == InitSearch /\ [][NextSearch]_vars

(* musicbrainz_lookup: the search and the selection, the full record of the
   selected recording, the extraction of the fields and the removal of the
   cover of a match that is not precise. *)

\* the first release of a record, None for a search candidate
ReleaseOf(rec) == IF "release" \in DOMAIN rec THEN rec.release ELSE None

\* what _mb_extract_fields gives for the title, the artist, the ids and the
\* cover of the record rec
MbExtractFields(rec) ==
    [k \in {"provenance", "recording_id", "recording_title"}
           \cup (IF rec.artist # None THEN {"artist"} ELSE {})
           \cup (IF ReleaseOf(rec) # None THEN {"release_id", "cover_art"}
                 ELSE {}) |->
        IF k = "provenance" THEN <<"musicbrainz">>
        ELSE IF k = "recording_id" THEN rec.id
        ELSE IF k = "recording_title" THEN rec.title
        ELSE IF k = "artist" THEN rec.artist
        ELSE IF k = "release_id" THEN rec.release
        ELSE <<"https://coverartarchive.org/release/">> \o rec.release
             \o <<"/front">>]

\* out.pop(k, None)
Pop(d, k) == [x \in DOMAIN d \ {k} |-> d[x]]

\* cand_a of _is_precise_match: the artist of the candidate or, when it has
\* none, of the full record
PreciseArtist(candidate_obj, full_obj) ==
    IF Normalize(candidate_obj.artist) = <<>>
    THEN Normalize(full_obj.artist)
    ELSE Normalize(candidate_obj.artist)

IsPreciseMatch_TitleOnly(title_in, artist_in, candidate_obj, full_obj) ==
    Normalize(candidate_obj.title) = Normalize(title_in)

\* _is_precise_match
IsPreciseMatch(title_in, artist_in, candidate_obj, full_obj) ==
    IF title_in # <<>> /\ artist_in # <<>>
    THEN /\ Normalize(candidate_obj.title) = Normalize(title_in)
         /\ PreciseArtist(candidate_obj, full_obj) = Normalize(artist_in)
    ELSE IF title_in # <<>>
    THEN Normalize(candidate_obj.title) = Normalize(title_in)
    ELSE IF artist_in # <<>>
    THEN PreciseArtist(candidate_obj, full_obj) = Normalize(artist_in)
    ELSE FALSE

\* what get_recording_by_id can return for the candidate c: the recording
\* of that id under its stored title and artist, with or without a release
FullRecords(c) ==
    [id : {c.id},
     title : {c.title, <<"d">>},
     artist : {None, <<"b">>, <<"c">>},
     release : {None, <<"r">>}]

\* musicbrainz_lookup(tags) with title = tags.get("TIT2") and
\* artist = tags.get("TPE1"); a failed get_recording_by_id leaves the
\* candidate as the record
MusicbrainzLookup ==
    /\ mb_out = <<>>
    /\ selected = <<>>
    /\ IF qtitle = <<>> /\ qartist = <<>>
       THEN /\ mb_out' = <<<<>>>>
            /\ UNCHANGED <<selected, full>>
       ELSE IF cands = <<>>
       THEN /\ selected' = <<None>>
            /\ mb_out' = <<<<>>>>
            /\ UNCHANGED full
       ELSE /\ selected' = <<SelectCandidate(cands, qtitle, qartist)>>
            /\ \E rec \in FullRecords(selected'[1]) \cup {selected'[1]} :
                   /\ full' = <<rec>>
                   /\ mb_out' =
                          <<IF IsPreciseMatch(qtitle, qartist, selected'[1], rec)
                            THEN MbExtractFields(rec)
                            ELSE Pop(MbExtractFields(rec), "cover_art")>>
    /\ UNCHANGED <<helpers, qtitle, qartist, cands, single, callers, writer, command>>

\* the lookups explored: the queries of the searches, with up to two
\* candidates
LookupIds == {<<"a">>, <<"B">>}

InitLookup ==
    /\ NoSingleCall
    /\ NoCallers
    /\ NoFile
    /\ NoCommand
    /\ NoHelpers
    /\ qtitle \in {None, <<"a">>}
    /\ qartist \in {None, <<"B">>, <<" ">>}
    /\ cands \in CandidateLists(LookupIds)
    /\ selected = <<>>
    /\ full = <<>>
    /\ mb_out = <<>>

NextLookup == MusicbrainzLookup

SpecLookup == InitLookup /\ [][NextLookup]_vars

-----------------------------------------------------------------------------
(* _download_cover_art (id3_cover.py:33-55): up to `retries` calls of
   urlopen, with a sleep after a failed one when another follows. *)

DefaultRetries == 2

RetriesSet == {-1, 0, 1, DefaultRetries, 3}

\* the exceptions the loop catches (id3_cover.py:46)
Caught == {"URLError", "TimeoutError", "OSError"}

OtherBytes == <<"o">>

\* what one urlopen and read can do: give bytes, give something that is not
\* bytes, raise a caught error, or raise another one (a malformed url)
Outcomes ==
    {<<"bytes", ImageBytes>>, <<"bytes", OtherBytes>>, <<"not bytes", None>>,
     <<"ValueError", None>>} \cup {<<e, None>> : e \in Caught}

SleepsAfter_Always(a, r) == TRUE

\* `if attempt < retries` (id3_cover.py:48)
SleepsAfter(a, r) == a < r

\* one pass of the loop body: the try block and the except clause
Attempt ==
    /\ dl_pc = "loop"
    /\ attempt < retries
    /\ attempt' = attempt + 1
    /\ \E o \in Outcomes :
        /\ dl_events' = Append(dl_events, <<"urlopen", o[1], o[2]>>)
        /\ IF o[1] = "bytes"
           THEN dl_pc' = "return" /\ dl_result' = <<"bytes", o[2]>>
           ELSE IF o[1] = "not bytes"
           THEN dl_pc' = "raise" /\ dl_result' = <<"raise", "TypeError">>
           ELSE IF o[1] \in Caught
           THEN /\ dl_pc' = IF SleepsAfter(attempt', retries)
                            THEN "sleep" ELSE "loop"
                /\ UNCHANGED dl_result
           ELSE dl_pc' = "raise" /\ dl_result' = <<"raise", o[1]>>
    /\ UNCHANGED <<retries, single, callers, writer, command, search,
                   tagging, panns, analysis, answer>>

\* time.sleep(0.5 * attempt), then `continue`
Sleep ==
    /\ dl_pc = "sleep"
    /\ dl_events' = Append(dl_events, <<"sleep", attempt, None>>)
    /\ dl_pc' = "loop"
    /\ UNCHANGED <<retries, attempt, dl_result, single, callers, writer,
                   command, search, tagging, panns, analysis, answer>>

\* the range is exhausted: raise RuntimeError(msg) from last_err
Exhausted ==
    /\ dl_pc = "loop"
    /\ attempt >= retries
    /\ dl_pc' = "raise"
    /\ dl_result' = <<"raise", "RuntimeError">>
    /\ UNCHANGED <<retries, attempt, dl_events, single, callers, writer,
                   command, search, tagging, panns, analysis, answer>>

InitDownload ==
    /\ NoSingleCall
    /\ NoCallers
    /\ NoFile
    /\ NoCommand
    /\ NoSearch
    /\ NoTagging /\ NoPanns /\ NoAnalysis
    /\ retries \in RetriesSet
    /\ attempt = 0
    /\ dl_pc = "loop"
    /\ dl_events = <<>>
    /\ dl_result = <<>>

NextDownload == Attempt \/ Sleep \/ Exhausted

\* urlopen is called with a timeout and the sleep is finite: a step that is
\* possible is taken
SpecDownload ==
    InitDownload /\ [][NextDownload]_vars /\ WF_vars(NextDownload)

-----------------------------------------------------------------------------
(* The deciles of the PANNs labels (essentia/analysis_to_tags.py:92-132 and
   222-263).  probs_dict is the sequence of its <<label, probability>> items
   in insertion order. *)

MaxLabels == 3

PannsLabels == {"g0", "g1", "g2", "g3"}

ProbSet == {Rat(1, 10), Rat(1, 2), Rat(9, 10)}

\* sorted(float(x) for x in probs_dict.values())
RECURSIVE SortedProbs(_)
SortedProbs(items) ==
    IF items = <<>> THEN <<>>
    ELSE LET s == SortedProbs(SubSeq(items, 1, Len(items) - 1))
             x == items[Len(items)][2]
             k == Cardinality({i \in 1..Len(s) : RLe(s[i], x)})
         IN  SubSeq(s, 1, k) \o <<x>> \o SubSeq(s, k + 1, Len(s))

\* sorted(probs_dict.items(), key=lambda x: float(x[1]), reverse=True):
\* items of equal probability keep their order
RECURSIVE SortedItems(_)
SortedItems(items) ==
    IF items = <<>> THEN <<>>
    ELSE LET s == SortedItems(SubSeq(items, 1, Len(items) - 1))
             x == items[Len(items)]
             k == Cardinality({i \in 1..Len(s) : RGe(s[i][2], x[2])})
         IN  SubSeq(s, 1, k) \o <<x>> \o SubSeq(s, k + 1, Len(s))

\* the leftmost insertion point instead of the rightmost
RECURSIVE BisectRight_Left(_, _, _, _)
BisectRight_Left(a, x, lo, hi) ==
    IF lo >= hi THEN lo
    ELSE LET mid == (lo + hi) \div 2
         IN  IF RLt(a[mid + 1], x) THEN BisectRight_Left(a, x, mid + 1, hi)
             ELSE BisectRight_Left(a, x, lo, mid)

\* bisect.bisect_right(a, x) with lo = 0 and hi = len(a); a[mid] of the
\* 0-based list is a[mid + 1] here
RECURSIVE BisectRight(_, _, _, _)
BisectRight(a, x, lo, hi) ==
    IF lo >= hi THEN lo
    ELSE LET mid == (lo + hi) \div 2
         IN  IF RLt(x, a[mid + 1]) THEN BisectRight(a, x, lo, mid)
             ELSE BisectRight(a, x, mid + 1, hi)

\* int(x) of a finite float: towards zero
IntOf(x) == IF x[1] < 0 THEN -((-x[1]) \div x[2]) ELSE x[1] \div x[2]

ClampDecile(d) == IF d < 0 THEN 0 ELSE IF d > 9 THEN 9 ELSE d

\* the decile of compute_panns_deciles (analysis_to_tags.py:244-252)
RowDecile(sorted_probs, p) ==
    LET n == Len(sorted_probs)
    IN  IF n <= 1 THEN 0
        ELSE LET rank == BisectRight(sorted_probs, p, 0, n) - 1
             IN  ClampDecile(IntOf(RDiv(Flt(rank * 10), Flt(n))))

\* the decile of _emit_panns_labels (analysis_to_tags.py:113-121)
FrameDecile(sorted_probs, p) ==
    LET n == Len(sorted_probs)
    IN  IF n <= 1 THEN 0
        ELSE LET rank_idx == BisectRight(sorted_probs, p, 0, n) - 1
             IN  ClampDecile(IntOf(RDiv(Flt(rank_idx * 10), Flt(n))))

ComputePannsDeciles(items) ==
    LET sorted_probs == SortedProbs(items)
        its == SortedItems(items)
    IN  [i \in 1..Len(its) |->
            [label |-> its[i][1], prob |-> its[i][2],
             decile |-> RowDecile(sorted_probs, its[i][2])]]

DigitChars == <<"0", "1", "2", "3", "4", "5", "6", "7", "8", "9">>

\* str(i) of an int that is not negative
RECURSIVE StrInt(_)
StrInt(i) ==
    IF i < 10 THEN <<DigitChars[i + 1]>>
    ELSE StrInt(i \div 10) \o <<DigitChars[(i % 10) + 1]>>

\* f"TXXX:panns {rank} {label}" and f"TXXX:panns {label}"
PannsRankKey(rank, label) == <<"TXXX:panns ">> \o StrInt(rank) \o <<" ", label>>

PannsKey(label) == <<"TXXX:panns ", label>>

\* the loop of _emit_panns_labels over the first m sorted items
RECURSIVE EmitLoop(_, _, _, _)
EmitLoop(out, its, sorted_probs, m) ==
    IF m = 0 THEN out
    ELSE LET o == EmitLoop(out, its, sorted_probs, m - 1)
             decile == FrameDecile(sorted_probs, its[m][2])
         IN  Put(Put(o, PannsRankKey(m - 1, its[m][1]), StrInt(decile)),
                 PannsKey(its[m][1]), StrInt(decile))

EmitPannsLabels(out, items) ==
    EmitLoop(out, SortedItems(items), SortedProbs(items), Len(items))

ComputePannsDecilesCall ==
    /\ rows = <<>>
    /\ rows' = <<ComputePannsDeciles(probs)>>
    /\ UNCHANGED <<probs, panns_out, single, callers, writer, command, search,
                   tagging, download, analysis, answer>>

EmitPannsLabelsCall ==
    /\ panns_out = <<>>
    /\ panns_out' = <<EmitPannsLabels(<<>>, probs)>>
    /\ UNCHANGED <<probs, rows, single, callers, writer, command, search,
                   tagging, download, analysis, answer>>

\* the dicts of up to MaxLabels labels, in every insertion order
RECURSIVE ProbsDicts(_)
ProbsDicts(n) ==
    IF n = 0 THEN {<<>>}
    ELSE LET shorter == ProbsDicts(n - 1)
         IN  shorter \cup
             {Append(d, <<l, p>>) :
                 d \in {e \in shorter : Len(e) = n - 1},
                 l \in PannsLabels, p \in ProbSet}

DistinctLabels(d) == \A i, j \in 1..Len(d) : d[i][1] = d[j][1] => i = j

InitPanns ==
    /\ NoSingleCall
    /\ NoCallers
    /\ NoFile
    /\ NoCommand
    /\ NoSearch
    /\ NoTagging /\ NoDownload /\ NoAnalysis
    /\ probs \in {d \in ProbsDicts(MaxLabels) : DistinctLabels(d)}
    /\ rows = <<>>
    /\ panns_out = <<>>

NextPanns == ComputePannsDecilesCall \/ EmitPannsLabelsCall

SpecPanns == InitPanns /\ [][NextPanns]_vars

-----------------------------------------------------------------------------
(* Vocabulary of the properties. *)

Returned == pc = "return"

\* The call got past the min_beats guard.
Classified == Returned /\ ~(Len(beats) < min_beats)

InUnit(x) == RLe(Flt(0), x) /\ RLe(x, Flt(1))

\* clamp(x, lo, hi) of the specification
Clamp(x, lo, hi) == IF RLt(x, lo) THEN lo ELSE IF RGt(x, hi) THEN hi ELSE x

\* beats[i] = t0 + (i - 1) * T for a period of T > 0 ticks
Regular(bs, t0, T) ==
    /\ T > 0
    /\ \A i \in 1..Len(bs) : bs[i] = t0 + (i - 1) * T

-----------------------------------------------------------------------------
(* C1: a call with fewer than min_beats beats (the empty sequence included)
   returns exactly label "uncertain", confidence 0.0, reason "too_few_beats",
   bpm, beat_cv and quant_score None and n_beats = len(beats), and assigns
   none of the statistics. *)
C1_TooFewBeats ==
    (Returned /\ Len(beats) < min_beats) =>
        /\ result = [label |-> "uncertain", confidence |-> Flt(0),
                     reason |-> <<"too_few_beats">>, bpm |-> None,
                     beat_cv |-> None, quant_score |-> None,
                     n_beats |-> Len(beats)]
        /\ \A i \in 1..Len(locals) : locals[i] = Unbound

C1_Witness ==
    Returned /\ beats = <<>> /\ min_beats = DefaultMinBeats

(* C2: past the guard, whatever the order of the timestamps, confidence and
   quant_score both lie in [0, 1]. *)
C2_UnitRange ==
    Classified => InUnit(result.confidence) /\ InUnit(result.quant_score)

C2_Witness ==
    /\ Classified
    /\ \E i \in 1..Len(ibis) : RLt(ibis[i], Flt(0))
    /\ \E i \in 1..Len(ibis) : ibis[i] = Flt(0)
    /\ RLt(Flt(0), result.quant_score) /\ RLt(result.quant_score, Flt(1))
    /\ RLt(Flt(0), result.confidence)

(* C3: past the guard the label is a function of confidence alone:
   clicktrack iff confidence >= 0.6, human iff confidence <= 0.4, uncertain
   iff 0.4 < confidence < 0.6. *)
C3_LabelByConfidence ==
    Classified =>
        /\ result.label = "clicktrack" <=> RGe(result.confidence, <<3, 5>>)
        /\ result.label = "human" <=> RLe(result.confidence, <<2, 5>>)
        /\ result.label = "uncertain" <=>
              (RLt(<<2, 5>>, result.confidence) /\ RLt(result.confidence, <<3, 5>>))

C3_Witness ==
    Classified /\ result.label = "uncertain" /\ Len(beats) = MaxBeats

(* C4 as stated: no result has label "clicktrack" with confidence <= 0.6,
   and none has label "human" with confidence >= 0.4. *)
C4_Original ==
    Returned =>
        /\ ~(result.label = "clicktrack" /\ RLe(result.confidence, <<3, 5>>))
        /\ ~(result.label = "human" /\ RGe(result.confidence, <<2, 5>>))

(* C4 amended: no result has label "clicktrack" with confidence < 0.6, and
   none has label "human" with confidence > 0.4. *)
C4_Amended ==
    Returned =>
        /\ ~(result.label = "clicktrack" /\ RLt(result.confidence, <<3, 5>>))
        /\ ~(result.label = "human" /\ RGt(result.confidence, <<2, 5>>))

C4_Witness ==
    Returned /\ result.label = "clicktrack" /\ result.confidence = <<3, 5>>

(* C5: past the guard, confidence = clamp(0.6 * cv_score + 0.4 * quant_score,
   0, 1) with cv_score = clamp((0.02 - beat_cv) / 0.02, 0, 1); cv_score is 1
   for beat_cv = 0, 0 for beat_cv >= 0.02 (infinity included), and always
   in [0, 1]. *)
C5_ConfidenceBlend ==
    Classified =>
        LET cs == Clamp(RDiv(RSub(<<1, 50>>, result.beat_cv), <<1, 50>>),
                        Flt(0), Flt(1))
        IN  /\ cv_score = cs
            /\ result.confidence =
                  Clamp(RAdd(RMul(<<3, 5>>, cs), RMul(<<2, 5>>, result.quant_score)),
                        Flt(0), Flt(1))
            /\ result.beat_cv = Flt(0) => cv_score = Flt(1)
            /\ RGe(result.beat_cv, <<1, 50>>) => cv_score = Flt(0)
            /\ InUnit(cv_score)

C5_Witness ==
    /\ Classified
    /\ RLt(Flt(0), cv_score) /\ RLt(cv_score, Flt(1))
    /\ RLt(Flt(0), result.quant_score) /\ RLt(result.quant_score, Flt(1))

\* Distance on the [0, 1) circle from phase p to the nearest of the n grid
\* phases 0/n .. (n-1)/n.
CircularDist(p, n) ==
    MinimumReduce([k \in 1..n |->
        LET d == RAbs(RSub(p, RDiv(Flt(k - 1), Flt(n))))
        IN  NpMinimum(d, RSub(Flt(1), d))])

(* C6 as stated: quant_score is the fraction of beats whose circular
   distance between phase and the nearest grid phase, times mean_ibi, is
   <= quant_tol_sec. *)
C6_CircularQuant ==
    Classified =>
        result.quant_score =
            Rat(Cardinality({i \in 1..Len(beats) :
                    RLe(RMul(CircularDist(phases[i], subdivisions), mean_ibi),
                        quant_tol_sec)}),
                Len(beats))

(* C7: a regular grid beats[i] = i * T, T > 0, with at least min_beats
   beats and the default subdivisions and tolerance gives n_beats = n,
   beat_cv < 0.001, quant_score = 1.0, confidence > 0.9 and label
   "clicktrack". *)
C7_RegularGrid ==
    (/\ Classified
     /\ subdivisions = DefaultSubdivisions
     /\ quant_tol_sec = DefaultQuantTolSec
     /\ Regular(beats, 0, beats[2] - beats[1])) =>
        /\ result.n_beats = Len(beats)
        /\ RLt(result.beat_cv, <<1, 1000>>)
        /\ result.quant_score = Flt(1)
        /\ RGt(result.confidence, <<9, 10>>)
        /\ result.label = "clicktrack"

C7_Witness ==
    /\ Classified
    /\ subdivisions = DefaultSubdivisions
    /\ Len(beats) = MaxBeats
    /\ Regular(beats, 0, 100)
    /\ result.label = "clicktrack"

(* C8: a regular sequence beats[i] = t0 + i * T, T > 0, t0 >= 0, with at
   least min_beats beats gives bpm = 60 / T, beat_cv = 0 and label
   "clicktrack", whatever its quant_score. *)
C8_RegularOffset ==
    \A t0 \in StartSet :
        (Classified /\ Regular(beats, t0, beats[2] - beats[1])) =>
            /\ result.bpm = RDiv(Flt(60), RMul(Flt(beats[2] - beats[1]), Tick))
            /\ result.beat_cv = Flt(0)
            /\ result.label = "clicktrack"

C8_Witness ==
    /\ Classified
    /\ Len(beats) = MaxBeats
    /\ Regular(beats, 3, 100)
    /\ result.quant_score = Flt(0)
    /\ result.label = "clicktrack"

(* C9: past the guard, a beat_cv of at least 0.02 never gives "clicktrack":
   cv_score is 0, confidence <= 0.4 and the label is "human". *)
C9_JitterCeiling ==
    (Classified /\ RGe(result.beat_cv, <<1, 50>>)) =>
        /\ result.label # "clicktrack"
        /\ cv_score = Flt(0)
        /\ RLe(result.confidence, <<2, 5>>)
        /\ result.label = "human"

C9_Witness ==
    /\ Classified
    /\ IsFinite(result.beat_cv)
    /\ RGe(result.beat_cv, <<1, 50>>) /\ RLt(result.beat_cv, <<1, 20>>)
    /\ result.quant_score = Flt(1)

(* C10: past the guard, a mean inter-beat interval that is not positive
   gives beat_cv = +infinity, cv_score = 0, bpm = None and a label that is
   "human" or "uncertain". *)
C10_NonPositiveMean ==
    (Classified /\ ~RGt(mean_ibi, Flt(0))) =>
        /\ result.beat_cv = PosInf
        /\ cv_score = Flt(0)
        /\ result.bpm = None
        /\ result.label \in {"human", "uncertain"}

C10_Witness ==
    /\ Classified
    /\ Len(beats) = MaxBeats
    /\ \A i \in 1..Len(beats) : beats[i] = beats[1]
    /\ mean_ibi = Flt(0)
    /\ result.bpm = None

(* C11: for every finite sequence of timestamps and every value of
   subdivisions, quant_tol_sec and min_beats the call returns a result
   whose label is human, clicktrack or uncertain, and never raises. *)
C11_NeverRaises ==
    pc # "call" =>
        /\ pc = "return"
        /\ result.label \in {"human", "clicktrack", "uncertain"}

(* C12: the result of a call depends on its arguments alone: two calls
   with identical beats and parameters return results identical in every
   field, whatever calls completed before them or interleave with them; and
   a step of a call changes neither the arguments of the call nor the frame
   of another call. *)
C12_SameArgsSameResult ==
    \A s, t \in Threads :
        (/\ frames[s].pc = "return"
         /\ frames[t].pc = "return"
         /\ ArgsOf(frames[s]) = ArgsOf(frames[t]))
            => frames[s].result = frames[t].result

C12_OwnFrameOnly ==
    \A t \in Threads :
        /\ frames[t].pc \notin {"idle", "return"}
               => ArgsOf(frames'[t]) = ArgsOf(frames[t])
        /\ frames'[t] # frames[t]
               => \A s \in Threads \ {t} : frames'[s] = frames[s]

C12_PureFunction == []C12_SameArgsSameResult /\ [][C12_OwnFrameOnly]_vars

C12_Witness ==
    /\ ncalls = MaxCalls
    /\ \A t \in Threads : frames[t].pc = "return"
    /\ ArgsOf(frames[1]) = ArgsOf(frames[2])
    /\ Len(frames[1].beats) = MaxBeatsCalls
    /\ frames[1].ibis[1] # frames[1].ibis[2]
    /\ RLt(Flt(0), frames[1].result.quant_score)
    /\ RLt(frames[1].result.quant_score, Flt(1))

\* The intervals equal to T ticks are more than half of the intervals.
MostIntervals(T) ==
    2 * Cardinality({i \in 1..Len(ibis) : ibis[i] = RMul(Flt(T), Tick)})
        > Len(ibis)

(* C13 as stated: a regular sequence of interval T > 0 with one or two
   detector errors (a grid beat missed, a beat added between two grid beats)
   that passes the min_beats guard has beat_cv = 0 and a label other than
   "human". *)
C13_Original ==
    (Classified /\ beats \in DamagedSequences) =>
        /\ result.beat_cv = Flt(0)
        /\ result.label # "human"

(* C13, amended: the same, for the sequences in which the intervals still
   equal to T are more than half of all intervals. *)
C13_Amended ==
    (/\ Classified
     /\ beats \in DamagedSequences
     /\ \E T \in PeriodSet : MostIntervals(T)) =>
        /\ result.beat_cv = Flt(0)
        /\ result.label # "human"

C13_Witness ==
    /\ Classified
    /\ min_beats = DefaultMinBeats
    /\ beats \in DamagedSequences
    /\ \E T \in PeriodSet :
        /\ MostIntervals(T)
        /\ \E i \in 1..Len(ibis) : ibis[i] = RMul(Flt(2 * T), Tick)
        /\ \E i \in 1..Len(ibis) : RLt(ibis[i], RMul(Flt(T), Tick))
    /\ result.beat_cv = Flt(0)

CoreFrames == {TIT2, TPE1, TALB, TCON}

\* The step is a call of apply_metadata.
ApplyStep == step = "apply_metadata" /\ step' # step

(* C14: apply_metadata never changes or removes an existing non-blank TIT2,
   TPE1, TALB or TCON value; when the proposed value differs from it and the
   call saved the file, the proposal is in TXXX:musicbrainz_proposed_<FRAME>
   afterwards.  (A core frame is then written only where it was absent or
   blank.) *)
C14_KeptAndProposed ==
    ApplyStep =>
        \A k \in CoreFrames :
            HasValue(tags, k) =>
                /\ Has(tags', k) /\ tags'[k] = tags[k]
                /\ (/\ step' = "returned" /\ save = "ok"
                    /\ Truthy(proposed, k)
                    /\ Strip(proposed[k]) # Strip(tags[k]))
                       => /\ Has(tags', ProposedKey(k))
                          /\ tags'[ProposedKey(k)] = proposed[k]

C14_CoreFramesKept == [][C14_KeptAndProposed]_vars

\* The run has printed, asked or called e.
Logged(e) == \E i \in DOMAIN log : log[i] = e

\* The command ran before on the file and reported it as applied.
PreviousRunApplied ==
    /\ history # <<>>
    /\ history[Len(history)].result.applied

(* C15: when a run of the command has applied a proposal to the file and the
   command is run again with the same lookup result, the delta of the second
   run is empty, no proposal is previewed and apply_metadata is not called. *)
C15_SecondRunEmpty ==
    PreviousRunApplied =>
        /\ delta = <<>>
        /\ ~Logged("preview")
        /\ ~Logged("apply_metadata")

\* The value proposed for k is on the file: a TXXX value equal after
\* trimming; a core value equal after trimming, or a core frame that differs
\* with the proposal in TXXX:musicbrainz_proposed_<FRAME>.
OnFile(t, p, k) ==
    IF IsTxxx(k) THEN Has(t, k) /\ Strip(t[k]) = Strip(p[k])
    ELSE /\ Truthy(t, k)
         /\ \/ Strip(t[k]) = Strip(p[k])
            \/ /\ Has(t, ProposedKey(k))
               /\ Strip(t[ProposedKey(k)]) = Strip(p[k])

\* No value of the proposal p is missing from the tags t or different there.
Reflected(t, p) == \A k \in DOMAIN p : OnFile(t, p, k)

(* C16: the result of a file has applied = True, and the file counts as
   'tags applied', only if apply_metadata was called and returned and the
   tags of the file then hold every proposed value; an apply that left the
   tags as they were is not reported as applied. *)
C16_AppliedOnlyIfVerified ==
    /\ (file_result.applied \/ counters.tags_applied > 0) =>
           /\ Logged("apply_metadata")
           /\ Reflected(tags, ProposeMetadataFromMb(mb_info))
    /\ (Logged("apply_metadata") /\ tags = backup) => ~file_result.applied

(* C17: in the run of a file apply_metadata is called only after
   _perform_embed, and only with an embed outcome of True or None; when the
   outcome is False the run never calls apply_metadata. *)
C17_EmbedBeforeApply ==
    /\ \A i \in DOMAIN log :
           log[i] = "apply_metadata" =>
               /\ \E j \in 1..(i - 1) : log[j] = "perform_embed"
               /\ file_result.embed \in {"True", "None"}
    /\ file_result.embed = "False" => ~Logged("apply_metadata")

\* An earlier run stopped at a failed embed with a delta to apply; this run
\* embedded the cover and then called apply_metadata.
C17_Witness ==
    /\ history # <<>>
    /\ history[1].result.embed = "False"
    /\ ~history[1].result.applied
    /\ file_result.embed = "True"
    /\ Logged("embed_cover")
    /\ Logged("apply_metadata")

\* The step is the part of the run that ends with the preview.
ProcessStep == step = "process" /\ step' # step

\* Every value the lookup result proposes is on the file already and the run
\* found no cover to embed; the run then ends without a preview.
C18_NothingToDo ==
    (/\ ProcessStep
     /\ Reflected(tags, ProposeMetadataFromMb(mb_info))
     /\ ~embed_would_write')
        => /\ step' = "result"
           /\ \A i \in DOMAIN log' :
                  log'[i] \notin {"preview", "prompt", "apply_metadata"}
           /\ tags' = tags

\* A run that ended without a preview has asked nothing and called neither
\* the embed nor apply_metadata.
C18_NoPreviewNoApply ==
    (step \in {"result", "summary"} /\ ~Logged("preview")) =>
        /\ ~Logged("prompt")
        /\ ~Logged("perform_embed")
        /\ ~Logged("apply_metadata")

(* C18: when every proposed value is already on the file (a core frame
   equal after trimming, or a differing core frame with the proposal in
   TXXX:musicbrainz_proposed_<FRAME>, and every TXXX value equal after
   trimming) and no cover would be embedded, the run previews nothing, asks
   for no confirmation and does not call apply_metadata. *)
C18_ReflectedMeansSilent == [][C18_NothingToDo]_vars /\ []C18_NoPreviewNoApply

\* The run ended without a preview for a file whose title differs from the
\* proposed one, with the proposal in TXXX:musicbrainz_proposed_TIT2 and a
\* provenance that equals the proposed one only after trimming.
C18_Witness ==
    /\ step = "result"
    /\ log = <<"lookup", "nothing">>
    /\ Has(proposed, TIT2) /\ Has(proposed, TxxxProvenance)
    /\ Truthy(tags, TIT2) /\ Strip(tags[TIT2]) # Strip(proposed[TIT2])
    /\ Has(tags, ProposedKey(TIT2))
    /\ Has(tags, TxxxProvenance) /\ tags[TxxxProvenance] # proposed[TxxxProvenance]
    /\ delta = <<>>

\* The search had candidates and the selection has returned one.
Selected == selected # <<>> /\ cands # <<>>

AllCandidates == {cands[i] : i \in DOMAIN cands}

\* equal without regard to case and to leading and trailing blanks
SameText(x, y) == Casefold(Strip(x)) = Casefold(Strip(y))

TitleMatches == {c \in AllCandidates : SameText(c.title, qtitle)}

\* the candidates of S that match the queried artist, when one is queried;
\* a candidate without an artist has the empty name
ArtistMatches(S) == {c \in S : qartist # <<>> /\ SameText(c.artist, qartist)}

\* the highest preference tier that is not empty
PreferredTier ==
    IF TitleMatches # {}
    THEN IF ArtistMatches(TitleMatches) # {} THEN ArtistMatches(TitleMatches)
         ELSE TitleMatches
    ELSE IF ArtistMatches(AllCandidates) # {} THEN ArtistMatches(AllCandidates)
    ELSE AllCandidates

(* C19: the candidate returned is in the highest tier that is not empty:
   the candidates with the queried title, narrowed to those with the queried
   artist when there are any; without a title match the candidates with the
   queried artist; otherwise all candidates.  A higher score in a lower tier
   does not matter. *)
C19_FromPreferredTier == Selected => selected[1] \in PreferredTier

\* A title match was returned although a candidate outside the tier has a
\* higher score.
C19_Witness ==
    /\ Selected
    /\ TitleMatches # {}
    /\ selected[1] \in PreferredTier
    /\ \E c \in AllCandidates \ PreferredTier : Score(c) > Score(selected[1])

\* the orders in which the search can return the same candidates
Orders(recs) ==
    {[i \in DOMAIN recs |-> recs[f[i]]] :
        f \in {g \in [DOMAIN recs -> DOMAIN recs] :
                  \A i, j \in DOMAIN recs : g[i] = g[j] => i = j}}

(* C20: the candidate returned has the highest score of its tier and, among
   the candidates of the tier with that score, the smallest id; the same
   candidate is returned for every order of the search result. *)
C20_BestOfTierAnyOrder ==
    Selected =>
        /\ \A c \in PreferredTier :
               /\ Score(c) <= Score(selected[1])
               /\ (Score(c) = Score(selected[1]) /\ c # selected[1])
                      => StrLess(selected[1].id, c.id)
        /\ \A recs \in Orders(cands) :
               SelectCandidate(recs, qtitle, qartist) = selected[1]

\* The candidate returned shares the highest score of its tier with a
\* candidate that the search listed before it.
C20_Witness ==
    /\ Selected
    /\ \E i, j \in DOMAIN cands :
           /\ i < j
           /\ cands[j] = selected[1]
           /\ cands[i] \in PreferredTier
           /\ Score(cands[i]) = Score(cands[j])
           /\ cands[i].score # cands[j].score

\* musicbrainz_lookup returned a result extracted from a record.
LookedUp == mb_out # <<>> /\ full # <<>>

\* the artist of the selected recording: of the candidate or, when the
\* candidate has none, of its full record
ArtistOfSelected ==
    IF Strip(selected[1].artist) # <<>> THEN selected[1].artist
    ELSE full[1].artist

TitlePrecise == SameText(selected[1].title, qtitle)

ArtistPrecise == SameText(ArtistOfSelected, qartist)

(* C21: the result of musicbrainz_lookup has a cover_art only if the
   selected recording is a precise match: title and artist both equal the
   queried ones, without regard to case and surrounding blanks, when both
   were queried, and the one queried field when only one was. *)
C21_CoverOnlyIfPrecise ==
    (LookedUp /\ "cover_art" \in DOMAIN mb_out[1]) =>
        /\ qtitle # <<>> => TitlePrecise
        /\ qartist # <<>> => ArtistPrecise

\* A cover came back for a query of title and artist whose candidate has no
\* artist of its own.
C21_Witness ==
    /\ LookedUp
    /\ "cover_art" \in DOMAIN mb_out[1]
    /\ qtitle # <<>> /\ qartist # <<>>
    /\ selected[1].artist = None
    /\ \E i \in DOMAIN cands : ~SameText(cands[i].title, qtitle)

\* The run of the command has read the tags of the file.
RunStarted == step # "process"

\* The file had a picture frame when the run read its tags.
HadCover == \E k \in DOMAIN existing_tags : IsApic(k)

(* C22: for a file that is not an MP3, or that already has a picture, the
   run downloads no image, embeds nothing, reports the embed outcome None
   and leaves the picture frames of the file as they were. *)
C22_EmbedOnlyMp3WithoutCover ==
    (RunStarted /\ (kind = "generic" \/ HadCover)) =>
        /\ ~Logged("download")
        /\ ~Logged("embed_cover")
        /\ file_result.embed = "None"
        /\ \A k \in DOMAIN existing_tags :
               IsApic(k) => Has(tags, k) /\ tags[k] = existing_tags[k]


-----------------------------------------------------------------------------
(* The download of a cover. *)

Terminated == dl_pc \in {"return", "raise"}

IsAttempt(e) == e[1] = "urlopen"

IsSuccess(e) == IsAttempt(e) /\ e[2] = "bytes"

IsCaughtFailure(e) == IsAttempt(e) /\ e[2] \in Caught

\* the number of download attempts among the first n events
AttemptsIn(n) == Cardinality({i \in 1..n : IsAttempt(dl_events[i])})

AttemptsAllowed == IF retries < 0 THEN 0 ELSE retries

DownloadSafe ==
    /\ AttemptsIn(Len(dl_events)) <= AttemptsAllowed
    \* the bytes of the first successful attempt, which is the last call made
    /\ dl_pc = "return" =>
           /\ dl_events # <<>>
           /\ IsSuccess(dl_events[Len(dl_events)])
           /\ dl_result = <<"bytes", dl_events[Len(dl_events)][3]>>
    /\ \A i \in 1..Len(dl_events) :
           IsSuccess(dl_events[i]) => i = Len(dl_events) /\ dl_pc = "return"
    \* a wait follows a failed attempt and comes before another attempt
    /\ \A i \in 1..Len(dl_events) :
           ~IsAttempt(dl_events[i]) =>
               /\ i > 1 /\ IsCaughtFailure(dl_events[i - 1])
               /\ AttemptsIn(i) < retries
               /\ i < Len(dl_events) => IsAttempt(dl_events[i + 1])
               /\ i = Len(dl_events) => ~Terminated
    \* RuntimeError once every attempt has failed with a caught error
    /\ (Terminated /\ \A i \in 1..Len(dl_events) :
                          IsAttempt(dl_events[i]) => IsCaughtFailure(dl_events[i]))
           => /\ dl_result = <<"raise", "RuntimeError">>
              /\ AttemptsIn(Len(dl_events)) = AttemptsAllowed
    /\ dl_result = <<"raise", "RuntimeError">> =>
           \A i \in 1..Len(dl_events) :
               IsAttempt(dl_events[i]) => IsCaughtFailure(dl_events[i])

\* C30: _download_cover_art always terminates after at most `retries`
\* download attempts: it returns the bytes of the first successful attempt
\* without attempting again, waits only between two attempts and never after
\* the last one, and raises RuntimeError once every attempt has failed with a
\* network, timeout or OS error.
C30_TerminatesWithinRetries == []DownloadSafe /\ <>Terminated

\* the default two attempts both failed, with one wait between them
C30_Witness ==
    /\ retries = DefaultRetries
    /\ dl_result = <<"raise", "RuntimeError">>
    /\ Len(dl_events) = 3
    /\ ~IsAttempt(dl_events[2])


-----------------------------------------------------------------------------
(* The deciles of a label-to-probability map. *)

LabelsOf(d) == {d[i][1] : i \in 1..Len(d)}

ProbOf(d, l) == d[CHOOSE i \in 1..Len(d) : d[i][1] = l][2]

\* floor(10 * r / n) capped at 9, r the number of labels whose probability is
\* at most that of l, minus one
ExpectedDecile(d, l) ==
    LET n == Len(d)
        r == Cardinality({m \in LabelsOf(d) : RLe(ProbOf(d, m), ProbOf(d, l))})
             - 1
        f == (10 * r) \div n
    IN  IF n = 1 THEN 0 ELSE IF f > 9 THEN 9 ELSE f

RowsAsStated ==
    LET rs == rows[1]
    IN  /\ Len(rs) = Len(probs)
        /\ \A l \in LabelsOf(probs) :
               \E i \in 1..Len(rs) :
                   /\ rs[i].label = l
                   /\ rs[i].prob = ProbOf(probs, l)
                   /\ rs[i].decile = ExpectedDecile(probs, l)
                   /\ rs[i].decile \in 0..9
        /\ \A i, j \in 1..Len(rs) :
               /\ i < j => RGe(rs[i].prob, rs[j].prob)
               /\ RGt(rs[i].prob, rs[j].prob) => rs[i].decile >= rs[j].decile

FramesAsStated ==
    LET out == panns_out[1]
    IN  \A l \in LabelsOf(probs) :
            /\ Has(out, PannsKey(l))
            /\ ParseDigits(out[PannsKey(l)], 0) = ExpectedDecile(probs, l)
            /\ \E r \in 0..(Len(probs) - 1) :
                   /\ Has(out, PannsRankKey(r, l))
                   /\ out[PannsRankKey(r, l)] = out[PannsKey(l)]

\* C26: for any label-to-probability map the decile of each label, in the
\* rows of compute_panns_deciles and in the TXXX:panns frames alike, is an
\* integer in 0..9 equal to floor(10 * r / n) capped at 9, with n the number
\* of labels and r the number of labels whose probability is at most the
\* label's, minus one (0 when n = 1); the rows are sorted by probability
\* descending and a higher probability never gets a lower decile.
C26_Deciles ==
    /\ rows # <<>> => RowsAsStated
    /\ panns_out # <<>> => FramesAsStated

\* three labels, two of them of the same probability, through both functions
C26_Witness ==
    /\ rows # <<>> /\ panns_out # <<>>
    /\ Len(probs) = 3
    /\ probs[1][2] = probs[2][2]
    /\ probs[3][2] # probs[1][2]
    /\ \E i \in 1..3 : rows[1][i].decile > 0


-----------------------------------------------------------------------------
(* The tags derived from a TimingResult. *)

\* the text v reads back as the float c, to the six decimals it may be cut to
HoldsFloat(v, c) ==
    IF IsNaN(c) THEN IsNaN(FloatOf(v))
    ELSE RLe(RAbs(RSub(FloatOf(v), c)), Rat(1, 2000000))

NonZero(d, k) == Has(d, k) /\ FloatOf(d[k]) # Flt(0)

IsZeroText(d, k) == Has(d, k) /\ d[k] = ZeroText

DerivedAsStated(d, t) ==
    /\ Has(d, TxxxRhythmTiming) /\ d[TxxxRhythmTiming] = StrOf(t.label)
    /\ ~(NonZero(d, TxxxRhythmHuman) /\ NonZero(d, TxxxRhythmMachine))
    /\ t.label = "human" =>
           /\ Has(d, TxxxRhythmHuman)
           /\ HoldsFloat(d[TxxxRhythmHuman], t.confidence)
           /\ IsZeroText(d, TxxxRhythmMachine)
    /\ t.label = "clicktrack" =>
           /\ Has(d, TxxxRhythmMachine)
           /\ HoldsFloat(d[TxxxRhythmMachine], t.confidence)
           /\ IsZeroText(d, TxxxRhythmHuman)
    /\ t.label = "uncertain" =>
           ~NonZero(d, TxxxRhythmHuman) /\ ~NonZero(d, TxxxRhythmMachine)

\* C25: the tags derived from a TimingResult carry TXXX:rhythm_timing equal
\* to the label and at most one of TXXX:rhythm_human and TXXX:rhythm_machine
\* is non-zero: rhythm_human holds the confidence and rhythm_machine is "0"
\* for the label human, the reverse for clicktrack, and neither holds a
\* non-zero value for uncertain.
C25_RhythmTagsFollowLabel ==
    /\ (rhythm_out # <<>> /\ timing # <<>>) =>
           DerivedAsStated(rhythm_out[1], timing[1])
    /\ (saved /\ timing # <<>>) => DerivedAsStated(id3, timing[1])

\* a clicktrack result of confidence 2/3 written by both, over a file that
\* held a human frame
C25_Witness ==
    /\ timing # <<>> /\ rhythm_out # <<>> /\ saved
    /\ timing[1].label = "clicktrack"
    /\ timing[1].confidence = Rat(2, 3)
    /\ id3[TxxxRhythmMachine] = <<"fixed", 666667>>
    /\ rhythm_out[1][TxxxRhythmMachine] = <<"repr", Rat(2, 3)>>


-----------------------------------------------------------------------------
(* The id3 command with the analysis options. *)

\* The tags hold a recording id or a release id of MusicBrainz.
HoldsMusicbrainzId(t) ==
    \E k \in {TxxxRecordingId, TxxxReleaseId} : k \in DOMAIN t /\ t[k] # <<>>

\* The run is a plain --fetch-metadata run.
PlainFetch == opts.fetch_metadata /\ ~opts.analyze /\ ~opts.apply_tags

\* A run that starts on a file with a MusicBrainz id ends at once as
\* skipped: no lookup, no proposal, nothing asked or written.
SkippedAtOnce ==
    /\ step' = "result"
    /\ file_result' = SkippedResult
    /\ \A i \in DOMAIN log' :
           log'[i] \notin {"lookup", "download", "preview", "prompt",
                           "apply_metadata", "embed_cover"}
    /\ tags' = tags
    /\ backup' = backup

C23_SkipAnyFetch ==
    (ProcessStep /\ HoldsMusicbrainzId(tags) /\ opts.fetch_metadata) => SkippedAtOnce

C23_SkipPlainFetch ==
    (ProcessStep /\ HoldsMusicbrainzId(tags) /\ PlainFetch) => SkippedAtOnce

\* A skipped file is counted once among the files skipped, and only a
\* skipped file is.
C23_CountedOnce ==
    /\ (step = "summary" /\ file_result.skipped) => counters.files_skipped = 1
    /\ counters.files_skipped \in {0, 1}
    /\ counters.files_skipped = 1 => file_result.skipped
    /\ file_result.skipped =>
           /\ step \in {"result", "summary"}
           /\ ~Logged("lookup") /\ ~Logged("preview")
           /\ ~Logged("apply_metadata")

(* C23 as stated: for a file whose tags hold TXXX:musicbrainz_recording_id
   or TXXX:musicbrainz_release_id, a --fetch-metadata run performs no
   MusicBrainz lookup, proposes and writes nothing, and counts the file
   exactly once in the files skipped of the summary. *)
C23_FetchRunSkipsTaggedFile == [][C23_SkipAnyFetch]_vars /\ []C23_CountedOnce

(* C23 amended: the same for a --fetch-metadata run without --analyze and
   without --apply-tags. *)
C23_PlainFetchRunSkipsTaggedFile ==
    [][C23_SkipPlainFetch]_vars /\ []C23_CountedOnce

\* a plain --fetch-metadata run on a file with a recording id has reached
\* its summary
C23_Witness ==
    /\ step = "summary"
    /\ PlainFetch
    /\ HoldsMusicbrainzId(tags)
    /\ file_result.skipped
    /\ counters.files_skipped = 1
    /\ log = <<>>


RhythmFrames == {FrameRhythmTiming, FrameRhythmHuman, FrameRhythmMachine}

\* The tags hold one of the three rhythm frames.
HoldsRhythmFrame(t) == \E k \in RhythmFrames : k \in DOMAIN t

\* The first step of a run on a file with a rhythm frame calls no detector
\* and proposes no rhythm frame.
C24_NoDetection ==
    (ProcessStep /\ HoldsRhythmFrame(tags) /\ opts.analyze) =>
        /\ \A i \in DOMAIN log' : log'[i] # "detect"
        /\ \A k \in RhythmFrames : k \notin DOMAIN proposed'
        /\ \A k \in RhythmFrames : k \notin DOMAIN delta'

\* No step of the run changes a rhythm frame that the file holds.
C24_NoOverwrite ==
    (HoldsRhythmFrame(tags) /\ opts.analyze) =>
        \A k \in RhythmFrames :
            k \in DOMAIN tags => k \in DOMAIN tags' /\ tags'[k] = tags[k]

\* the same, for the runs without --apply-tags
C24_WithoutApplyTags ==
    ~opts.apply_tags => C24_NoDetection /\ C24_NoOverwrite

(* C24: when the tags of a file already hold TXXX:rhythm_timing,
   TXXX:rhythm_human or TXXX:rhythm_machine, processing the file with
   --analyze, with or without --apply-tags, runs no rhythm timing detection
   and neither proposes nor overwrites any of those frames. *)
C24_RhythmFramesKept == [][C24_NoDetection /\ C24_NoOverwrite]_vars

C24_HoldsWithoutApplyTags == [][C24_WithoutApplyTags]_vars


\* The answers that _confirm_apply takes as a yes: y or yes, in any case,
\* with blanks around.
Affirmative ==
    {a \in Answers :
        Lower(Strip(a)) = <<"y">> \/ Lower(Strip(a)) = <<"y", "e", "s">>}

\* The run has asked and the answer was not a yes.
Declined == Logged("prompt") /\ answer \notin Affirmative

(* C27: without --yes, if the answer to the confirmation prompt is anything
   other than y or yes (case-insensitive, trimmed), neither the cover-art
   embed nor apply_metadata is performed for the file, the file is left
   unchanged, and the result is applied = False, embed = None. *)
C27_DeclinedChangesNothing ==
    /\ Logged("prompt") => ~opts.yes
    /\ Declined =>
           /\ ~Logged("perform_embed")
           /\ ~Logged("embed_cover")
           /\ ~Logged("apply_metadata")
           /\ tags = existing_tags
           /\ step \in {"result", "summary"}
           /\ ~file_result.applied
           /\ file_result.embed = "None"
           /\ step = "summary" => counters.tags_applied = 0

\* the answer "ye" ended a run that had previewed analysis-derived tags
C27_Witness ==
    /\ Declined
    /\ answer = <<"y", "e">>
    /\ opts.apply_tags
    /\ log[Len(log)] = "aborted"
    /\ step = "summary"


\* apply_metadata is called on a file that can be saved, and returns
ApplyReturns == step = "apply" /\ step' = "verify" /\ save = "ok"

\* The call puts every key of the previewed delta on the file with the
\* previewed value and changes no other tag.
C28_ApplyWritesTheDelta ==
    ApplyReturns =>
        /\ \A k \in DOMAIN delta : k \in DOMAIN tags' /\ tags'[k] = delta[k]
        /\ \A k \in (DOMAIN tags \cup DOMAIN tags') \ DOMAIN delta :
               k \in DOMAIN tags /\ k \in DOMAIN tags' /\ tags'[k] = tags[k]

(* C28: the previewed delta holds exactly the keys that the apply_metadata
   call that follows adds or changes on the file: every key of the delta
   ends up on the file with the previewed value and no tag outside the
   delta changes, for MusicBrainz-derived and for analysis-derived
   proposals. *)
C28_DeltaIsWhatApplyChanges == [][C28_ApplyWritesTheDelta]_vars


\* the run analysed the file and the rhythm timing detector gave a result
DetectionRan == opts.analyze /\ Logged("detect")

\* the three label counters of the summary
LabelCounters ==
    counters.rhythm_human + counters.rhythm_clicktrack
        + counters.rhythm_uncertain

\* rhythm_detected is the sum of the three label counters
C29_DetectedIsSum == counters.rhythm_detected = LabelCounters

(* C29: when analysis runs on a file and the rhythm timing detection gives
   a result, the result of the file carries rhythm_timing, the summary
   counts the file once in rhythm_detected and once in exactly one of
   rhythm_human, rhythm_clicktrack and rhythm_uncertain, and
   rhythm_detected equals the sum of the three. *)
C29_DetectionIsCounted ==
    /\ C29_DetectedIsSum
    /\ (DetectionRan /\ step \in {"result", "summary"})
           => file_result.rhythm_timing # None
    /\ (DetectionRan /\ step = "summary")
           => counters.rhythm_detected = 1 /\ LabelCounters = 1

====
